---------------------------- MODULE Spec2Model ----------------------------
(***************************************************************************)
(* RadioBox FPGA interface (apps-free/radiobox/src/fpga_rb.c) and the      *)
(* housekeeping module (api-mockup/rpbase/src/housekeeping.c).             *)
(*                                                                         *)
(* Number representation.  TLC integers are 32 bit wide, so:               *)
(*  - a 32-bit register holds a value below 2^31 in every state modelled   *)
(*    here, except the version word, which is kept as two 16-bit halves,   *)
(*    and the ADC offset register, which holds a sign-extended int16_t     *)
(*    and is kept as the signed number;                                    *)
(*  - the DDS phase accumulators (48 of 64 bits in the source, split over  *)
(*    an _hi and an _lo register of 32 bits each) are AccBits wide and     *)
(*    split over two registers of OscWordBits bits each;                   *)
(*  - the base oscillator (nominally 125 MHz) is BaseOscHz, frequencies    *)
(*    are integers in Hz;                                                  *)
(*  - a double is the exact rational it stands for, kept as a numerator    *)
(*    over a positive denominator; a conversion to an integer type         *)
(*    truncates toward zero, as C does.                                    *)
(***************************************************************************)
EXTENDS Integers, Sequences, FiniteSets, TLC

(***************************************************************************)
(* Bounds of the model                                                     *)
(***************************************************************************)
\* width of a DDS phase accumulator (source: 48)
AccBits == 16
\* width of one register of an _hi/_lo pair (source: 32)
OscWordBits == 14
\* calibrated base oscillator frequency g_rp_main_calib_params.base_osc125mhz_realhz
BaseOscHz == 12500
\* largest carrier frequency magnitude drawn as an input
MaxQrg == 3000

\* the longest run of calls that is followed
MaxCalls == 3

\* largest magnitude of a mux-in gain drawn as an input (percent)
MaxGain == 130

\* number of quietest offsets tried next to each end and to the middle of the range
DcSpan == 40

(***************************************************************************)
(* Arithmetic helpers                                                      *)
(***************************************************************************)
Pow2(n) == 2 ^ n

Abs(x) == IF x < 0 THEN -x ELSE x

\* C's conversion of the rational n/d (d > 0) to an integer type: toward zero
TruncDiv(n, d) == IF n >= 0 THEN n \div d ELSE -((-n) \div d)

\* bitwise operators of C on non-negative values
\* a & b of two values below 16, bit by bit
AndNibble(a, b) ==
    IF a = 0 \/ b = 0 THEN 0
    ELSE ((a % 2) * (b % 2) + 2 * (((a \div 2) % 2) * ((b \div 2) % 2)))
         + (4 * (((a \div 4) % 2) * ((b \div 4) % 2)) + 8 * ((a \div 8) * (b \div 8)))

\* a & b of two values below 65536, nibble by nibble
AndWord(a, b) ==
    IF a = 0 \/ b = 0 THEN 0
    ELSE (AndNibble(a % 16, b % 16) + 16 * AndNibble((a \div 16) % 16, (b \div 16) % 16))
         + (256 * AndNibble((a \div 256) % 16, (b \div 256) % 16)
            + 4096 * AndNibble(a \div 4096, b \div 4096))

BitAnd(a, b) == AndWord(a % 65536, b % 65536) + 65536 * AndWord(a \div 65536, b \div 65536)

BitOr(a, b) == a + b - BitAnd(a, b)

\* a & ~mask
BitClear(a, mask) == a - BitAnd(a, mask)

\* the two registers of an _hi/_lo pair for a signed bitfield:
\*   bf_hi = (uint32_t) (bitfield >> 32);  bf_lo = (uint32_t) (bitfield & 0xffffffff);
bf_hi(bitfield) == (bitfield \div Pow2(OscWordBits)) % Pow2(OscWordBits)
bf_lo(bitfield) == bitfield % Pow2(OscWordBits)

\* the signed value an _hi/_lo pair holds:
\*   bitfield = lo;  bitfield |= ((int64_t) hi) << 32;
\* (the pair is 2*OscWordBits wide here and 64 bits wide in the source)
pair_value(hi, lo) ==
    LET u == hi * Pow2(OscWordBits) + lo
    IN  IF u >= Pow2(2 * OscWordBits - 1) THEN u - Pow2(2 * OscWordBits) ELSE u


(***************************************************************************)
(* 32-bit words that may use bit 31: kept as two 16-bit halves             *)
(***************************************************************************)
U32(hi16, lo16) == <<hi16, lo16>>

\* a < b on uint32_t
U32Less(a, b) == a[1] < b[1] \/ (a[1] = b[1] /\ a[2] < b[2])

\* (w >> pos) & 0xf for pos = 28, 24, ..., 0
U32Nibble(w, pos) ==
    IF pos >= 16 THEN (w[1] \div Pow2(pos - 16)) % 16
    ELSE (w[2] \div Pow2(pos)) % 16

\* w & 0x80000000
U32Bit31(w) == w[1] >= 32768

\* (uint32_t) -k for k = 1, 2, 3
U32Minus(k) == U32(65535, 65536 - k)

(***************************************************************************)
(* Program constants that live in the headers fpga.h and main.h           *)
(***************************************************************************)
\* fpga.h: oldest RadioBox FPGA image this application works with
FPGA_VERSION_MIN == U32(5633, 257)

\* main.h: modulation sources
RB_MODSRC_NONE == 0
RB_MODSRC_RF_IN1 == 1
RB_MODSRC_RF_IN2 == 2
RB_MODSRC_EXP_AI0 == 4
RB_MODSRC_EXP_AI1 == 5
RB_MODSRC_EXP_AI2 == 6
RB_MODSRC_EXP_AI3 == 7
RB_MODSRC_MOD_OSC == 15
RB_MODSRC_AC97_LINEOUT_L == 24
RB_MODSRC_AC97_LINEOUT_R == 25

\* main.h: transmitter modulation variants
RB_TX_MODTYP_USB == 2
RB_TX_MODTYP_LSB == 3
RB_TX_MODTYP_AM == 4
RB_TX_MODTYP_FM == 7
RB_TX_MODTYP_PM == 8

\* main.h: receiver modulation variants
RB_RX_MODTYP_USB == 2
RB_RX_MODTYP_LSB == 3
RB_RX_MODTYP_AMSYNC_USB == 4
RB_RX_MODTYP_AMSYNC_LSB == 5
RB_RX_MODTYP_FM == 7
RB_RX_MODTYP_PM == 8
RB_RX_MODTYP_AMENV == 9

(***************************************************************************)
(* The register window fpga_rb_reg_mem_t (the registers the code touches)  *)
(***************************************************************************)
OscRegs ==
    { "tx_mod_osc_inc_lo", "tx_mod_osc_inc_hi", "tx_mod_osc_ofs_lo", "tx_mod_osc_ofs_hi",
      "tx_car_osc_inc_lo", "tx_car_osc_inc_hi", "tx_car_osc_ofs_lo", "tx_car_osc_ofs_hi",
      "rx_mod_osc_inc_lo", "rx_mod_osc_inc_hi", "rx_mod_osc_ofs_lo", "rx_mod_osc_ofs_hi",
      "rx_car_osc_inc_lo", "rx_car_osc_inc_hi", "rx_car_osc_ofs_lo", "rx_car_osc_ofs_hi" }

RegNames ==
    OscRegs \cup
    { "ctrl", "pwr_ctrl", "src_con_pnt", "src_con_pnt2",
      "tx_muxin_src", "tx_muxin_gain", "tx_muxin_ofs",
      "tx_amp_rf_gain", "tx_amp_rf_ofs",
      "tx_mod_qmix_gain", "tx_mod_qmix_ofs_lo", "tx_mod_qmix_ofs_hi",
      "tx_car_osc_inc_scnr_lo", "tx_car_osc_inc_scnr_hi",
      "rx_car_osc_inc_scnr_lo", "rx_car_osc_inc_scnr_hi",
      "rx_muxin_src", "rx_muxin_gain", "rx_muxin_ofs",
      "rx_car_calc_weaver_inc_lo", "rx_car_calc_weaver_inc_hi",
      "rx_amenv_filtvar",
      "rx_mod_ssb_am_gain", "rx_mod_amenv_gain", "rx_mod_fm_gain", "rx_mod_pm_gain",
      "rfout1_gain", "rfout1_ofs", "rfout2_gain", "rfout2_ofs" }

\* the register file after the FPGA has been configured
RegsZero == [r \in RegNames |-> 0]

(***************************************************************************)
(* State                                                                   *)
(***************************************************************************)
VARIABLES
    g_fpga_rb_reg_mem,  \* "NULL" or "MAPPED": the pointer to the register window
    regs,               \* the registers of the RadioBox sub-module
    version,            \* the read-only version register of the loaded FPGA image
    olds,               \* the static *_old variables of fpga_rb_set_ctrl
    adc_ofs,            \* g_rp_main_calib_params: ADC offset per input channel
    adc_dc,             \* hardware: the offset at which the input noise is minimal
    pn,                 \* list of new parameters: name, value, fpga_update
    cal,                \* rp_minimize_noise: its locals and position
    call,               \* the last call: op, arg, ret, wr (registers written), info
    prev6,              \* the six cached arguments of the call before, when that
                        \* call was fpga_rb_set_ctrl, else << >>
    segv,               \* a register was accessed through the NULL pointer
    ncalls,             \* the number of calls made so far
    hk                  \* housekeeping.c: the pointer hk, the size mapped for it and
                        \* the registers of the housekeeping sub-module

vars == <<g_fpga_rb_reg_mem, regs, version, olds, adc_ofs, adc_dc, pn, cal, call, prev6, segv, ncalls, hk>>

\* a run of register accesses: the register file, the registers written and
\* the values written to ctrl on the way
Mach(r) == [regs |-> r, wr |-> {}, ctl |-> {}]

\* g_fpga_rb_reg_mem-><reg> = val
W(m, reg, val) ==
    [regs |-> [m.regs EXCEPT ![reg] = val], wr |-> m.wr \cup {reg},
     ctl |-> IF reg = "ctrl" THEN m.ctl \cup {val} ELSE m.ctl]

\* the statements of a function body, one after the other: steps holds what
\* each statement leaves, in program order, and the body leaves the last of them
InOrder(steps) == steps[Len(steps)]

\* several writes in a row: r is the register file after them, w the registers written
Wr(m, r, w) ==
    [regs |-> r, wr |-> m.wr \cup w, ctl |-> IF "ctrl" \in w THEN m.ctl \cup {r["ctrl"]} ELSE m.ctl]

\* values ctrl held between two of the writes
CtrlOnTheWay(m, vals) == [m EXCEPT !.ctl = @ \cup vals]

(***************************************************************************)
(* fpga_rb_enable, fpga_rb_reset, fpga_get_version                         *)
(***************************************************************************)
\* the register writes of fpga_rb_enable once the pointer is known to be set
enable_writes(m, enable) ==
    IF enable # 0
    THEN Wr(m, [m.regs EXCEPT !["ctrl"] = 1,
                              !["src_con_pnt"] = 807141376,      \* 0x301C0000
                              !["tx_muxin_gain"] = 32767,        \* 0x00007FFF
                              !["tx_amp_rf_gain"] = 3200,        \* 0x00000C80
                              !["tx_amp_rf_ofs"] = 0],
            {"ctrl", "src_con_pnt", "tx_muxin_gain", "tx_amp_rf_gain", "tx_amp_rf_ofs"})
    ELSE Wr(m, [m.regs EXCEPT !["src_con_pnt"] = 0,
                              !["tx_muxin_gain"] = 0,
                              !["tx_amp_rf_gain"] = 0,
                              !["rx_muxin_src"] = 0,
                              !["ctrl"] = 0],
            {"src_con_pnt", "tx_muxin_gain", "tx_amp_rf_gain", "rx_muxin_src", "ctrl"})

\* fpga_rb_enable on a machine whose pointer is ptr
enable_on(ptr, m, enable) == IF ptr = "NULL" THEN m ELSE enable_writes(m, enable)

\* the register writes of fpga_rb_reset; ctrl goes through
\* 0x10101011, 0x10161017, 0x10101011 and ends at 0x00000001
reset_writes(m) ==
    CtrlOnTheWay(
    Wr(m, [m.regs EXCEPT !["tx_mod_osc_inc_lo"] = 0, !["tx_mod_osc_inc_hi"] = 0,
                         !["tx_mod_osc_ofs_lo"] = 0, !["tx_mod_osc_ofs_hi"] = 0,
                         !["tx_car_osc_inc_lo"] = 0, !["tx_car_osc_inc_hi"] = 0,
                         !["tx_car_osc_ofs_lo"] = 0, !["tx_car_osc_ofs_hi"] = 0,
                         !["rx_mod_osc_inc_lo"] = 0, !["rx_mod_osc_inc_hi"] = 0,
                         !["rx_mod_osc_ofs_lo"] = 0, !["rx_mod_osc_ofs_hi"] = 0,
                         !["rx_car_osc_inc_lo"] = 0, !["rx_car_osc_inc_hi"] = 0,
                         !["rx_car_osc_ofs_lo"] = 0, !["rx_car_osc_ofs_hi"] = 0,
                         !["ctrl"] = 269488145,       \* 0x10101011
                         !["ctrl"] = 269881367,       \* 0x10161017
                         !["ctrl"] = 269488145,
                         !["ctrl"] = 1],
       OscRegs \cup {"ctrl"}),
    {269488145, 269881367})

reset_on(ptr, m) == IF ptr = "NULL" THEN m ELSE reset_writes(m)

\* every nibble of the version word is a decimal digit
all_decimal(v) == \A k \in 0..7 : U32Nibble(v, 4 * k) <= 9

\* a variant of fpga_get_version without the loop over the nibbles
get_version_without_nibbles(ptr, v) ==
    IF ptr = "NULL" THEN U32Minus(1)
    ELSE IF U32Less(v, U32(4609, 257)) \/ U32Less(U32(10514, 12953), v) THEN U32Minus(2)
    ELSE v

\* fpga_get_version: the value returned for pointer ptr and version register v
get_version(ptr, v) ==
    IF ptr = "NULL" THEN U32Minus(1)
    ELSE IF U32Less(v, U32(4609, 257)) \/ U32Less(U32(10514, 12953), v) THEN U32Minus(2)
    ELSE IF ~all_decimal(v) THEN U32Minus(3)
    ELSE v

\* a variant of the test that takes FPGA_VERSION_MIN itself for outdated
version_outdated_or_equal(ver) == ~U32Less(FPGA_VERSION_MIN, ver) \/ U32Bit31(ver)

\* the test of fpga_rb_init on the value fpga_get_version returned
version_outdated(ver) == U32Less(ver, FPGA_VERSION_MIN) \/ U32Bit31(ver)

(***************************************************************************)
(* Frequency / gain encoders                                               *)
(***************************************************************************)
\* trunc(k * a / d) for k > 0, d > 0, without leaving 32 bits
MulTrunc(k, a, d) ==
    LET mag == k * (Abs(a) \div d) + (k * (Abs(a) % d)) \div d
    IN  IF a < 0 THEN -mag ELSE mag

\* The DDS increment for a frequency, as each of the oscillator setters computes it:
\*   double qrg = ((double) (1ULL << 48)) * (f / base_osc125mhz_realhz);
\*   if (qrg > 0.0) qrg += 0.5; else if (qrg < 0.0) qrg -= -0.5;
\*   int64_t bitfield = qrg;
\* qrg is the rational num / BaseOscHz
qrg_bitfield(f) ==
    LET num == f * Pow2(AccBits)
    IN  IF num > 0 THEN TruncDiv(2 * num + BaseOscHz, 2 * BaseOscHz)
        ELSE IF num < 0 THEN TruncDiv(2 * num - (-BaseOscHz), 2 * BaseOscHz)
        ELSE 0

\* writes a signed bitfield to the _lo and then the _hi register of a pair
WPair(m, lo, hi, bitfield) ==
    Wr(m, [m.regs EXCEPT ![lo] = bf_lo(bitfield), ![hi] = bf_hi(bitfield)], {lo, hi})

\* one of the four oscillator frequency setters: increment pair, then a zero phase offset
set_osc_qrg(m, osc, f) ==
    LET bitfield == qrg_bitfield(f)
    IN  Wr(m, [m.regs EXCEPT ![osc \o "_inc_lo"] = bf_lo(bitfield),
                             ![osc \o "_inc_hi"] = bf_hi(bitfield),
                             ![osc \o "_ofs_lo"] = 0,
                             ![osc \o "_ofs_hi"] = 0],
           {osc \o "_inc_lo", osc \o "_inc_hi", osc \o "_ofs_lo", osc \o "_ofs_hi"})

set_tx_mod_osc_qrg(m, f) == set_osc_qrg(m, "tx_mod_osc", f)
set_tx_car_osc_qrg(m, f) == set_osc_qrg(m, "tx_car_osc", f)
set_rx_car_osc_qrg(m, f) == set_osc_qrg(m, "rx_car_osc", f)
set_rx_mod_osc_qrg(m, f) == set_osc_qrg(m, "rx_mod_osc", f)

\* fpga_rb_set_rx_calc_afc_weaver__4mod_am_fm_pm: the rounded increment times -625
set_rx_calc_afc_weaver(m, f) ==
    LET num == f * Pow2(AccBits)
        bitfield == IF num = 0 THEN 0 ELSE -MulTrunc(625, 2 * num + BaseOscHz, 2 * BaseOscHz)
    IN  WPair(m, "rx_car_calc_weaver_inc_lo", "rx_car_calc_weaver_inc_hi", bitfield)

\* fpga_rb_get_tx_car_osc_qrg / fpga_rb_get_rx_car_osc_qrg:
\*   floor(base_osc125mhz_realhz * bitfield / 2^48 + 0.5)
get_osc_qrg(r, osc) ==
    LET bitfield == pair_value(r[osc \o "_inc_hi"], r[osc \o "_inc_lo"])
        q == bitfield \div Pow2(AccBits)
        rest == bitfield % Pow2(AccBits)
    IN  BaseOscHz * q + (BaseOscHz * rest + Pow2(AccBits - 1)) \div Pow2(AccBits)

\* The sweep increment of the carrier scanner for qrg_inc = 55 .. 100:
\*   (int64_t) (10000 * pow(10, 3 * |qrg_inc - 50| / 50 - 3) * (2^48 / base) / 200e3)
\* tabulated for the nominal base oscillator of 125 MHz
ScnrTable ==
    << 224, 257, 296, 340, 390, 448, 514, 590, 678, 778, 894, 1026, 1178, 1353, 1554,
       1784, 2048, 2352, 2700, 3100, 3560, 4087, 4693, 5388, 6187, 7103, 8156, 9364,
       10752, 12345, 14174, 16274, 18685, 21453, 24632, 28281, 32471, 37282, 42805,
       49147, 56428, 64788, 74387, 85408, 98061, 112589 >>

\* pow() is tabulated for 0 .. 100 only; the scanner of a value outside runs at the end of scale
scnr_rate(dist) == ScnrTable[(IF dist > 50 THEN 50 ELSE dist) - 4]

\* a variant that negates the increment (two's complement) where the code has ~bitfield
set_car_osc_qrg_inc_negating(m, osc, qrg_inc) ==
    LET lo == osc \o "_inc_scnr_lo"
        hi == osc \o "_inc_scnr_hi"
        dist == Abs(qrg_inc - 50)
    IN  IF 10 * dist < 50
        THEN Wr(m, [m.regs EXCEPT ![lo] = 0, ![hi] = 0], {lo, hi})
        ELSE IF qrg_inc < 50
             THEN WPair(m, lo, hi, -scnr_rate(dist))
             ELSE WPair(m, lo, hi, scnr_rate(dist))

\* fpga_rb_set_tx_car_osc_qrg_inc__4mod_cw_ssb_am_pm and its RX twin
set_car_osc_qrg_inc(m, osc, qrg_inc) ==
    LET lo == osc \o "_inc_scnr_lo"
        hi == osc \o "_inc_scnr_hi"
        dist == Abs(qrg_inc - 50)
    IN  IF 10 * dist < 50                       \* fabs((qrg_inc - 50) / 50.0) < 0.1
        THEN Wr(m, [m.regs EXCEPT ![lo] = 0, ![hi] = 0], {lo, hi})
        ELSE IF qrg_inc < 50
             THEN WPair(m, lo, hi, -scnr_rate(dist) - 1)   \* bitfield = ~bitfield
             ELSE WPair(m, lo, hi, scnr_rate(dist))

set_tx_car_osc_qrg_inc(m, qrg_inc) == set_car_osc_qrg_inc(m, "tx_car_osc", qrg_inc)
set_rx_car_osc_qrg_inc(m, qrg_inc) == set_car_osc_qrg_inc(m, "rx_car_osc", qrg_inc)

\* fpga_rb_get_tx_car_osc_qrg_inc and its RX twin: the sweep rate read back from the
\* scanner pair, here in mHz/s, truncated (a double in Hz/s in the source):
\*   bitfield * base * 200e3 / 2^48, which is bitfield * 0.0888 Hz/s at 125 MHz
get_car_osc_qrg_inc(r, osc) ==
    LET bitfield == pair_value(r[osc \o "_inc_scnr_hi"], r[osc \o "_inc_scnr_lo"])
    IN  IF bitfield = 0 THEN 0
        ELSE IF bitfield < 0
             THEN -(((-bitfield - 1) * 888) \div 10)          \* neg = 1; bitfield = ~bitfield
             ELSE (bitfield * 888) \div 10

\* fpga_rb_set_tx_mod_qmix_gain_ofs__4mod_cw_ssbweaver_am(grade, isOffset), grade >= 0
set_tx_mod_qmix_gain_ofs_cw_ssbweaver_am(m, grade, isOffset) ==
    LET gain == IF isOffset # 0 THEN (32767 * grade) \div 100 ELSE (65535 * grade) \div 100
        ofs  == IF isOffset # 0
                THEN TruncDiv(100 * (Pow2(AccBits - 1) - 1) - (Pow2(AccBits - 2) - 1) * grade, 100)
                ELSE 0
    IN  Wr(m, [m.regs EXCEPT !["tx_mod_qmix_gain"] = gain % 65536,
                             !["tx_mod_qmix_ofs_lo"] = bf_lo(ofs),
                             !["tx_mod_qmix_ofs_hi"] = bf_hi(ofs)],
           {"tx_mod_qmix_gain", "tx_mod_qmix_ofs_lo", "tx_mod_qmix_ofs_hi"})

\* fpga_rb_set_tx_mod_qmix_gain_ofs__4mod_fm(tx_car_osc_qrg, tx_mod_osc_mag), both >= 0
set_tx_mod_qmix_gain_ofs_fm(m, tx_car_osc_qrg, tx_mod_osc_mag) ==
    LET gain == MulTrunc(65535, 16384 * tx_mod_osc_mag, BaseOscHz)
        ofs  == TruncDiv(tx_car_osc_qrg * Pow2(AccBits), BaseOscHz)
    IN  Wr(m, [m.regs EXCEPT !["tx_mod_qmix_gain"] = gain % 65536,
                             !["tx_mod_qmix_ofs_lo"] = bf_lo(ofs),
                             !["tx_mod_qmix_ofs_hi"] = bf_hi(ofs)],
           {"tx_mod_qmix_gain", "tx_mod_qmix_ofs_lo", "tx_mod_qmix_ofs_hi"})

\* fpga_rb_set_tx_mod_qmix_gain_ofs__4mod_pm(tx_car_osc_qrg, tx_mod_osc_mag)
set_tx_mod_qmix_gain_ofs_pm(m, tx_car_osc_qrg, tx_mod_osc_mag) ==
    Wr(m, [m.regs EXCEPT !["tx_mod_qmix_gain"] = ((65535 * tx_mod_osc_mag) \div 180) % 65536,
                         !["tx_mod_qmix_ofs_lo"] = 0,
                         !["tx_mod_qmix_ofs_hi"] = 0],
       {"tx_mod_qmix_gain", "tx_mod_qmix_ofs_lo", "tx_mod_qmix_ofs_hi"})

\* fpga_rb_set_tx_amp_rf_gain_ofs__4mod_all(gnum / gden, 0.0)
set_tx_amp_rf_gain_ofs(m, gnum, gden) ==
    Wr(m, [m.regs EXCEPT !["tx_amp_rf_gain"] = TruncDiv(32767 * gnum, gden * 2048) % 65536,
                         !["tx_amp_rf_ofs"] = 0],
       {"tx_amp_rf_gain", "tx_amp_rf_ofs"})

\* fpga_rb_set_tx_modtyp / fpga_rb_set_rx_modtyp: the power savings control
set_tx_modtyp(m, tx_modtyp) ==
    LET masked == BitClear(m.regs["pwr_ctrl"], 65280)        \* & 0xffff00ff
    IN  Wr(m, [m.regs EXCEPT !["pwr_ctrl"] = masked,
                             !["pwr_ctrl"] = BitOr(masked, (tx_modtyp % 256) * 256)],
           {"pwr_ctrl"})

set_rx_modtyp(m, rx_modtyp) ==
    LET masked == BitClear(m.regs["pwr_ctrl"], 255)          \* & 0xffffff00
    IN  Wr(m, [m.regs EXCEPT !["pwr_ctrl"] = masked,
                             !["pwr_ctrl"] = BitOr(masked, rx_modtyp % 256)],
           {"pwr_ctrl"})

\* a variant of the gain encoding that cuts the fraction off
muxin_gain_bitfield_truncating(muxin_gain, booster) ==
    LET g == IF muxin_gain > 100 THEN 100 ELSE muxin_gain
    IN  IF g <= 0 THEN 0
        ELSE IF g < 80 THEN ((g * 65535) \div 80) % 65536
        ELSE BitOr((((g - 80) * booster) \div 20) * 65536, 65535)

\* the value fpga_rb_set_tx_muxin_gain / fpga_rb_set_rx_muxin_gain write to the gain
\* register; booster is 7 for TX and 5 for RX:  (uint32_t) (0.5 + x) is floor(x + 1/2)
muxin_gain_bitfield(muxin_gain, booster) ==
    LET g == IF muxin_gain > 100 THEN 100 ELSE muxin_gain
    IN  IF g <= 0 THEN 0
        ELSE IF g < 80 THEN ((2 * g * 65535 + 80) \div 160) % 65536
        ELSE BitOr(((2 * (g - 80) * booster + 20) \div 40) * 65536, 65535)

set_tx_muxin_gain(m, tx_muxin_gain, tx_muxin_ofs) ==
    Wr(m, [m.regs EXCEPT !["tx_muxin_gain"] = muxin_gain_bitfield(tx_muxin_gain, 7),
                         !["tx_muxin_ofs"] = tx_muxin_ofs % 65536],
       {"tx_muxin_gain", "tx_muxin_ofs"})

set_rx_muxin_gain(m, rx_muxin_gain, rx_muxin_ofs) ==
    Wr(m, [m.regs EXCEPT !["rx_muxin_gain"] = muxin_gain_bitfield(rx_muxin_gain, 5),
                         !["rx_muxin_ofs"] = rx_muxin_ofs % 65536],
       {"rx_muxin_gain", "rx_muxin_ofs"})

\* fpga_rb_set_rx_amenv_filtvar
set_rx_amenv_filtvar(m, v) ==
    W(m, "rx_amenv_filtvar", IF v < 0 THEN 0 ELSE IF v > 2 THEN 2 ELSE v)

\* the four demodulator gains, each called with 100.0 [%]
set_rx_mod_gains(m) ==
    Wr(m, [m.regs EXCEPT !["rx_mod_ssb_am_gain"] = (65535 * 100) \div 200,
                         !["rx_mod_amenv_gain"] = (65535 * 100) \div 100,
                         !["rx_mod_fm_gain"] = (65535 * 100) \div 100,
                         !["rx_mod_pm_gain"] = (65535 * 100) \div 100],
       {"rx_mod_ssb_am_gain", "rx_mod_amenv_gain", "rx_mod_fm_gain", "rx_mod_pm_gain"})

\* rp_gain_compensation.c (another translation unit): the output amplitude
\* correction for a frequency and a termination, in units of 1/256
get_compensation_factor(freq, term50) ==
    256 + (IF term50 = 1 THEN 256 ELSE 0) + ((freq \div 500) % 64)

\* fpga_rb_set_rfout1_gain_ofs / fpga_rb_set_rfout2_gain_ofs(gain, 0.0), gain in 1/256
set_rfout_gain_ofs(m, out, gain256) ==
    LET g == IF gain256 = 0 THEN 256 ELSE gain256
    IN  Wr(m, [m.regs EXCEPT ![out \o "_gain"] = g % 65536, ![out \o "_ofs"] = 0],
           {out \o "_gain", out \o "_ofs"})

(***************************************************************************)
(* fpga_rb_set_ctrl                                                        *)
(***************************************************************************)
ssb_weaver_osc_qrg == 1700
adc_auto_ofs == 16777216                \* 0x01000000

\* a variant of ctrl &= ~mask that leaves the PM offset streaming bit 0x40 alone
CtrlClear_keeping_pm(m, mask) == W(m, "ctrl", BitClear(m.regs["ctrl"], BitClear(mask, 64)))

\* a variant of ctrl &= ~mask that takes the enable bit 0 along
CtrlClear_with_enable(m, mask) == W(m, "ctrl", BitClear(m.regs["ctrl"], BitOr(mask, 1)))

\* ctrl &= ~mask;   ctrl |= mask;
CtrlClear(m, mask) == W(m, "ctrl", BitClear(m.regs["ctrl"], mask))
CtrlSet(m, mask) == W(m, "ctrl", BitOr(m.regs["ctrl"], mask))

\* the static old values before the first call
OldsInit ==
    [ tx_car_osc_qrg_old |-> 0, rx_car_osc_qrg_old |-> 0, src_con_pnt_old |-> 0,
      src_con_pnt2_old |-> 0, term_rfout1_old |-> 0, term_rfout2_old |-> 0 ]

\* "only when relevant changes were made"
relevant_changes(o, a) ==
    \/ o.src_con_pnt_old # a.src_con_pnt
    \/ o.src_con_pnt2_old # a.src_con_pnt2
    \/ o.term_rfout1_old # a.term_rfout1
    \/ o.term_rfout2_old # a.term_rfout2
    \/ o.tx_car_osc_qrg_old # a.tx_car_osc_qrg
    \/ o.rx_car_osc_qrg_old # a.rx_car_osc_qrg

\* the old values the changed block stores
olds_stored(o, a) ==
    [ o EXCEPT !.tx_car_osc_qrg_old = a.tx_car_osc_qrg,
               !.rx_car_osc_qrg_old = a.rx_car_osc_qrg,
               !.src_con_pnt_old = a.src_con_pnt,
               !.term_rfout1_old = a.term_rfout1,
               !.term_rfout2_old = a.term_rfout2 ]

olds_after(o, a) == IF relevant_changes(o, a) THEN olds_stored(o, a) ELSE o

\* the frequency an RF output carries, from its connection point
rfout_frequency(con_pnt, a) ==
    IF 4 <= con_pnt /\ con_pnt <= 23 THEN ssb_weaver_osc_qrg
    ELSE IF 24 <= con_pnt /\ con_pnt <= 31 THEN a.tx_car_osc_qrg
    ELSE IF 32 <= con_pnt /\ con_pnt <= 33 THEN a.rx_car_osc_qrg
    ELSE IF 34 <= con_pnt /\ con_pnt <= 65 THEN ssb_weaver_osc_qrg
    ELSE IF 72 <= con_pnt /\ con_pnt <= 80 THEN ssb_weaver_osc_qrg
    ELSE 0

\* the register writes of the changed block: RF output gains, then the connection points
rfout_writes(m, a) ==
    LET con1 == (a.src_con_pnt \div 65536) % 256
        con2 == (a.src_con_pnt \div 16777216) % 256
        g1 == IF a.term_rfout1 # 0
              THEN get_compensation_factor(rfout_frequency(con1, a), IF a.term_rfout1 = 1 THEN 1 ELSE 0)
              ELSE 256
        g2 == IF a.term_rfout2 # 0
              THEN get_compensation_factor(rfout_frequency(con2, a), IF a.term_rfout2 = 1 THEN 1 ELSE 0)
              ELSE 256
        m1 == set_rfout_gain_ofs(m, "rfout1", g1)
        m2 == set_rfout_gain_ofs(m1, "rfout2", g2)
    IN  Wr(m2, [m2.regs EXCEPT !["src_con_pnt"] = a.src_con_pnt,
                               !["src_con_pnt2"] = a.src_con_pnt2],
           {"src_con_pnt", "src_con_pnt2"})

\* TX_MOD_OSC phase not zero: reset phase oscillator
tx_mod_resync(m, status) ==
    IF BitAnd(status, 256) = 0 THEN CtrlSet(CtrlClear(m, 4096), 4096) ELSE m

\* the carrier is set only while the scanner rests at mid-range
tx_car_writes(m, f, tx_car_osc_qrg_inc) ==
    LET m1 == IF tx_car_osc_qrg_inc = 50 THEN set_tx_car_osc_qrg(m, f) ELSE m
    IN  set_tx_car_osc_qrg_inc(m1, tx_car_osc_qrg_inc)

rx_car_writes(m, f, rx_car_osc_qrg_inc) ==
    LET m1 == IF rx_car_osc_qrg_inc = 50 THEN set_rx_car_osc_qrg(m, f) ELSE m
    IN  set_rx_car_osc_qrg_inc(m1, rx_car_osc_qrg_inc)

\* TX_MOD_OSC frequency, or turning it off
tx_mod_osc_writes(m, a, status) ==
    IF a.tx_modsrc = RB_MODSRC_MOD_OSC
    THEN set_tx_mod_osc_qrg(m, a.tx_mod_osc_qrg)
    ELSE tx_mod_resync(set_tx_mod_osc_qrg(m, 0), status)

\* an ADC input as TX modulation source
tx_adc_source(m, a, ofs, src) ==
    CtrlSet(W(set_tx_muxin_gain(m, a.tx_muxin_gain, ofs[src]), "tx_muxin_src", src), adc_auto_ofs)

\* switch (tx_modsrc)
tx_modsrc_writes(m, a, status, ofs, tx_inc) ==
    CASE a.tx_modsrc = RB_MODSRC_MOD_OSC ->
            W(set_tx_muxin_gain(m, 0, 0), "tx_muxin_src", 0)
      [] a.tx_modsrc = RB_MODSRC_RF_IN1 -> tx_adc_source(m, a, ofs, 32)
      [] a.tx_modsrc = RB_MODSRC_RF_IN2 -> tx_adc_source(m, a, ofs, 33)
      [] a.tx_modsrc = RB_MODSRC_EXP_AI0 -> tx_adc_source(m, a, ofs, 16)
      [] a.tx_modsrc = RB_MODSRC_EXP_AI1 -> tx_adc_source(m, a, ofs, 24)
      [] a.tx_modsrc = RB_MODSRC_EXP_AI2 -> tx_adc_source(m, a, ofs, 17)
      [] a.tx_modsrc = RB_MODSRC_EXP_AI3 -> tx_adc_source(m, a, ofs, 25)
      [] a.tx_modsrc = RB_MODSRC_AC97_LINEOUT_L ->
            W(set_tx_muxin_gain(m, a.tx_muxin_gain, 0), "tx_muxin_src", 48)
      [] a.tx_modsrc = RB_MODSRC_AC97_LINEOUT_R ->
            W(set_tx_muxin_gain(m, a.tx_muxin_gain, 0), "tx_muxin_src", 49)
      [] OTHER ->                                   \* default: and RB_MODSRC_NONE
            LET m1 == W(set_tx_muxin_gain(m, 0, 0), "tx_muxin_src", 0)
                m2 == tx_car_writes(m1, a.tx_car_osc_qrg, tx_inc)
                m3 == set_tx_mod_qmix_gain_ofs_cw_ssbweaver_am(m2, 0, 1)
            IN  InOrder(<< m1, m2, m3,
                           IF BitAnd(status, 256) = 0
                           THEN CtrlSet(CtrlSet(CtrlClear(m3, 4096), 4096), adc_auto_ofs)
                           ELSE m3 >>)

\* switch (tx_modtyp), entered when tx_modsrc != RB_MODSRC_NONE
tx_modtyp_writes(m, a, status, tx_inc) ==
    CASE a.tx_modtyp = RB_TX_MODTYP_USB ->
            LET m1 == CtrlClear(m, 28790)                                   \* ~0x00007076
                m2 == set_tx_amp_rf_gain_ofs(m1, 3 * a.tx_amp_rf_gain, 2)
                m3 == tx_car_writes(m2, a.tx_car_osc_qrg + ssb_weaver_osc_qrg, tx_inc)
                m4 == set_tx_mod_osc_qrg(m3, ssb_weaver_osc_qrg)
            IN  InOrder(<< m1, m2, m3, m4,
                           set_tx_mod_qmix_gain_ofs_cw_ssbweaver_am(m4, a.tx_mod_osc_mag, 0) >>)
      [] a.tx_modtyp = RB_TX_MODTYP_LSB ->
            LET m1 == CtrlClear(m, 28790)
                m2 == set_tx_amp_rf_gain_ofs(m1, 3 * a.tx_amp_rf_gain, 2)
                m3 == tx_car_writes(m2, a.tx_car_osc_qrg - ssb_weaver_osc_qrg, tx_inc)
                m4 == set_tx_mod_osc_qrg(m3, -ssb_weaver_osc_qrg)
            IN  InOrder(<< m1, m2, m3, m4,
                           set_tx_mod_qmix_gain_ofs_cw_ssbweaver_am(m4, a.tx_mod_osc_mag, 0) >>)
      [] a.tx_modtyp = RB_TX_MODTYP_AM ->
            LET m1 == CtrlClear(m, 28790)
                m2 == set_tx_amp_rf_gain_ofs(m1, a.tx_amp_rf_gain, 1)
                m3 == tx_car_writes(m2, a.tx_car_osc_qrg, tx_inc)
                m4 == tx_mod_osc_writes(m3, a, status)
            IN  InOrder(<< m1, m2, m3, m4,
                           set_tx_mod_qmix_gain_ofs_cw_ssbweaver_am(m4, a.tx_mod_osc_mag, 1) >>)
      [] a.tx_modtyp = RB_TX_MODTYP_FM ->
            LET m1 == CtrlClear(m, 28758)                                   \* ~0x00007056
                m2 == set_tx_amp_rf_gain_ofs(m1, a.tx_amp_rf_gain, 1)
                m3 == tx_mod_osc_writes(m2, a, status)
                m4 == set_tx_mod_qmix_gain_ofs_fm(m3, a.tx_car_osc_qrg, a.tx_mod_osc_mag)
            IN  InOrder(<< m1, m2, m3, m4, CtrlSet(m4, 32) >>)
      [] a.tx_modtyp = RB_TX_MODTYP_PM ->
            LET m1 == CtrlClear(m, 28726)                                   \* ~0x00007036
                m2 == set_tx_amp_rf_gain_ofs(m1, a.tx_amp_rf_gain, 1)
                m3 == tx_car_writes(m2, a.tx_car_osc_qrg, tx_inc)
                m4 == tx_mod_osc_writes(m3, a, status)
                m5 == set_tx_mod_qmix_gain_ofs_pm(m4, a.tx_car_osc_qrg, a.tx_mod_osc_mag)
            IN  InOrder(<< m1, m2, m3, m4, m5, CtrlSet(m5, 64) >>)
      [] OTHER ->
            LET m1 == set_tx_amp_rf_gain_ofs(m, a.tx_amp_rf_gain, 1)
                m2 == tx_car_writes(m1, a.tx_car_osc_qrg, tx_inc)
                m3 == set_tx_mod_osc_qrg(m2, 0)
            IN  InOrder(<< m1, m2, m3, tx_mod_resync(m3, status) >>)

\* an ADC input as receiver input
rx_adc_source(m, a, ofs, src) ==
    CtrlSet(W(set_rx_muxin_gain(m, a.rx_muxin_gain, ofs[src]), "rx_muxin_src", src), adc_auto_ofs)

\* switch (rx_muxin_src)
rx_muxin_src_writes(m, a, ofs) ==
    CASE a.rx_muxin_src = RB_MODSRC_RF_IN1 -> rx_adc_source(m, a, ofs, 32)
      [] a.rx_muxin_src = RB_MODSRC_RF_IN2 -> rx_adc_source(m, a, ofs, 33)
      [] a.rx_muxin_src = RB_MODSRC_EXP_AI0 -> rx_adc_source(m, a, ofs, 16)
      [] a.rx_muxin_src = RB_MODSRC_EXP_AI1 -> rx_adc_source(m, a, ofs, 24)
      [] a.rx_muxin_src = RB_MODSRC_EXP_AI2 -> rx_adc_source(m, a, ofs, 17)
      [] a.rx_muxin_src = RB_MODSRC_EXP_AI3 -> rx_adc_source(m, a, ofs, 25)
      [] a.rx_muxin_src = RB_MODSRC_AC97_LINEOUT_L ->
            W(set_rx_muxin_gain(m, a.rx_muxin_gain, 0), "rx_muxin_src", 48)
      [] a.rx_muxin_src = RB_MODSRC_AC97_LINEOUT_R ->
            W(set_rx_muxin_gain(m, a.rx_muxin_gain, 0), "rx_muxin_src", 49)
      [] OTHER ->                                   \* default: and RB_MODSRC_NONE
            W(set_rx_muxin_gain(m, a.rx_muxin_gain, 0), "rx_muxin_src", 0)

\* switch (rx_modtyp & 0x0f)
rx_modtyp_writes(m, a, rx_inc) ==
    LET typ == a.rx_modtyp % 16
    IN  CASE typ = RB_RX_MODTYP_USB ->
                LET m1 == CtrlClear(m, 276168704)                           \* ~0x10760000
                    m2 == rx_car_writes(m1, a.rx_car_osc_qrg + ssb_weaver_osc_qrg, rx_inc)
                IN  InOrder(<< m1, m2, set_rx_mod_osc_qrg(m2, ssb_weaver_osc_qrg) >>)
          [] typ = RB_RX_MODTYP_LSB ->
                LET m1 == CtrlClear(m, 276168704)
                    m2 == rx_car_writes(m1, a.rx_car_osc_qrg - ssb_weaver_osc_qrg, rx_inc)
                IN  InOrder(<< m1, m2, set_rx_mod_osc_qrg(m2, -ssb_weaver_osc_qrg) >>)
          [] typ = RB_RX_MODTYP_AMSYNC_USB ->
                LET m1 == CtrlSet(CtrlClear(m, 274071552), 2097152)         \* ~0x10560000, 0x00200000
                    m2 == rx_car_writes(m1, a.rx_car_osc_qrg + ssb_weaver_osc_qrg, rx_inc)
                    m3 == set_rx_mod_osc_qrg(m2, ssb_weaver_osc_qrg)
                IN  InOrder(<< m1, m2, m3, set_rx_calc_afc_weaver(m3, ssb_weaver_osc_qrg) >>)
          [] typ = RB_RX_MODTYP_AMSYNC_LSB ->
                LET m1 == CtrlSet(CtrlClear(m, 274071552), 2097152)
                    m2 == rx_car_writes(m1, a.rx_car_osc_qrg - ssb_weaver_osc_qrg, rx_inc)
                    m3 == set_rx_mod_osc_qrg(m2, -ssb_weaver_osc_qrg)
                IN  InOrder(<< m1, m2, m3, set_rx_calc_afc_weaver(m3, -ssb_weaver_osc_qrg) >>)
          [] typ = RB_RX_MODTYP_FM \/ typ = RB_RX_MODTYP_PM ->
                LET m1 == CtrlSet(CtrlClear(m, 274071552), 2097152)
                    m2 == rx_car_writes(m1, a.rx_car_osc_qrg, rx_inc)
                IN  InOrder(<< m1, m2, set_rx_calc_afc_weaver(m2, 0) >>)
          [] typ = RB_RX_MODTYP_AMENV ->
                LET m1 == CtrlSet(CtrlClear(m, 274071552), 2097152)
                    m2 == rx_car_writes(m1, a.rx_car_osc_qrg, rx_inc)
                    m3 == set_rx_calc_afc_weaver(m2, 0)
                IN  InOrder(<< m1, m2, m3, set_rx_amenv_filtvar(m3, a.rx_modtyp \div 16) >>)
          [] OTHER ->
                set_rx_car_osc_qrg_inc(set_rx_car_osc_qrg(m, 0), 50)

\* the branch  if (rb_run) { ... }
run_writes(m, a, status, ofs) ==
    LET tx_inc == IF a.tx_qrg_sel # 0 THEN a.qrg_inc ELSE 50
        rx_inc == IF a.rx_qrg_sel # 0 THEN a.qrg_inc ELSE 50
        m1 == set_rx_mod_gains(m)
        m2 == tx_modsrc_writes(m1, a, status, ofs, tx_inc)
        m3 == IF a.tx_modsrc # RB_MODSRC_NONE
              THEN tx_modtyp_writes(set_tx_modtyp(m2, a.tx_modtyp), a, status, tx_inc)
              ELSE m2
        m4 == rx_muxin_src_writes(m3, a, ofs)
        m5 == set_rx_modtyp(m4, a.rx_modtyp % 16)
    IN  InOrder(<< m1, m2, m3, m4, m5, rx_modtyp_writes(m5, a, rx_inc) >>)

\* a variant of the branch with the two statements that are commented out in it:
\* fpga_rb_set_tx_car_osc_qrg__4mod_cw_ssb_am_pm(0.0), fpga_rb_set_rx_car_osc_qrg__4mod_ssb_am_fm_pm(0.0)
stop_writes_losing_carriers(m) ==
    LET m1 == CtrlClear(m, 276197494)
        m2 == W(m1, "tx_muxin_src", 0)
        m3 == set_tx_amp_rf_gain_ofs(m2, 0, 1)
        m4 == set_tx_car_osc_qrg_inc(set_tx_car_osc_qrg(m3, 0), 50)
        m5 == set_tx_mod_osc_qrg(m4, 0)
        m6 == set_tx_mod_qmix_gain_ofs_fm(m5, 0, 0)
        m7 == W(m6, "rx_muxin_src", 0)
        m8 == set_rx_car_osc_qrg_inc(set_rx_car_osc_qrg(m7, 0), 50)
        m9 == set_rx_calc_afc_weaver(m8, 0)
    IN  InOrder(<< m1, m2, m3, m4, m5, m6, m7, m8, m9, set_rx_mod_osc_qrg(m9, 0) >>)

\* the branch  else { ... }: everything off, the carrier frequencies kept
stop_writes(m) ==
    LET m1 == CtrlClear(m, 276197494)                                       \* ~0x10767076
        m2 == W(m1, "tx_muxin_src", 0)
        m3 == set_tx_amp_rf_gain_ofs(m2, 0, 1)
        m4 == set_tx_car_osc_qrg_inc(m3, 50)
        m5 == set_tx_mod_osc_qrg(m4, 0)
        m6 == set_tx_mod_qmix_gain_ofs_fm(m5, 0, 0)
        m7 == W(m6, "rx_muxin_src", 0)
        m8 == set_rx_car_osc_qrg_inc(m7, 50)
        m9 == set_rx_calc_afc_weaver(m8, 0)
    IN  InOrder(<< m1, m2, m3, m4, m5, m6, m7, m8, m9, set_rx_mod_osc_qrg(m9, 0) >>)

\* every register write of one fpga_rb_set_ctrl call on a mapped window
set_ctrl_writes(m, o, a, status, ofs) ==
    LET m1 == IF relevant_changes(o, a) THEN rfout_writes(m, a) ELSE m
    IN  InOrder(<< m1, IF a.rb_run # 0 THEN run_writes(m1, a, status, ofs) ELSE stop_writes(m1) >>)

(***************************************************************************)
(* Calibration                                                             *)
(***************************************************************************)
\* the input lines rp_measure_calib_params calibrates, in its order:
\* 0x20, 0x21, 0x18, 0x10, 0x11, 0x19
CalibLines == << 32, 33, 24, 16, 17, 25 >>

Channels == { CalibLines[k] : k \in 1..Len(CalibLines) }

\* hardware: the CORDIC magnitude register for the selected input line and the
\* offset register; dcs[line] is the offset at which the line is quietest.
\* The magnitude is 32 * |offset - dcs[line]|, so that the rounded reading
\* (mag + 16) >> 5 is |offset - dcs[line]| itself.
rx_afc_cordic_mag(r, dcs) ==
    IF r["rx_muxin_src"] \in Channels
    THEN 32 * Abs(r["rx_muxin_ofs"] - dcs[r["rx_muxin_src"]])
    ELSE 0

\* the eight readings of one measurement when the hardware is noise free
steady_reads(mag) == [k \in 1..8 |-> mag]

\* one reading as it is summed up: (rx_afc_cordic_mag + 16) >> 5
rounded_read(mag) == (mag + 16) \div 32

\* for (iter = 8; iter; --iter) sumreg += ...
sum_reads(mags) ==
    ((rounded_read(mags[8]) + rounded_read(mags[7])) + (rounded_read(mags[6]) + rounded_read(mags[5])))
    + ((rounded_read(mags[4]) + rounded_read(mags[3])) + (rounded_read(mags[2]) + rounded_read(mags[1])))

prepare_rx_measurement(m, inputLine) ==
    Wr(m, [m.regs EXCEPT !["ctrl"] = 1,
                         !["pwr_ctrl"] = 7,
                         !["src_con_pnt"] = 0,
                         !["rx_car_osc_inc_lo"] = 1043161656,       \* 0x3e2d6238
                         !["rx_car_osc_inc_hi"] = 5,
                         !["rx_muxin_src"] = inputLine,
                         !["rx_muxin_gain"] = 8191],                \* 0x00001fff
       {"ctrl", "pwr_ctrl", "src_con_pnt", "rx_car_osc_inc_lo", "rx_car_osc_inc_hi",
        "rx_muxin_src", "rx_muxin_gain"})

finish_rx_measurement(m) ==
    Wr(m, [m.regs EXCEPT !["rx_muxin_ofs"] = 0,
                         !["rx_muxin_src"] = 0,
                         !["rx_car_osc_inc_lo"] = 0,
                         !["rx_car_osc_inc_hi"] = 0,
                         !["pwr_ctrl"] = 0,
                         !["ctrl"] = 0],
       {"rx_muxin_ofs", "rx_muxin_src", "rx_car_osc_inc_lo", "rx_car_osc_inc_hi", "pwr_ctrl", "ctrl"})

\* the register writes of test_rx_measurement; the offset register holds the
\* sign-extended int16_t, kept here as the signed number
test_rx_setup(m, adc_offset_val, reduction) ==
    Wr(m, [m.regs EXCEPT !["rx_muxin_ofs"] = adc_offset_val,
                         !["rx_muxin_gain"] = 65535 \div Pow2(reduction)],
       {"rx_muxin_ofs", "rx_muxin_gain"})

\* the value test_rx_measurement returns for the eight readings mags
test_rx_measurement(mags) == sum_reads(mags)

\* rp_minimize_noise, one round of its loop (i = 15 .. 1) and its last step (i = 0)
reduction_of(i) == IF i - 11 < 0 THEN 0 ELSE i - 11

test_ofs_lo(min_ofs_value, i) ==
    IF i > 0 THEN BitOr(min_ofs_value, Pow2(i - 1)) % 65536 ELSE min_ofs_value

\* a variant of the higher candidate: 0b10 for 0b11
test_ofs_hi_one_bit(min_ofs_value, i) ==
    IF i > 0 THEN BitOr(min_ofs_value, 2 * Pow2(i - 1)) % 65536 ELSE BitOr(min_ofs_value, 1)

\* test_ofs_hi = min_ofs_value | (0b11 << (i - 1)); min_ofs_value | 0b1 in the last step
test_ofs_hi(min_ofs_value, i) ==
    IF i > 0 THEN BitOr(min_ofs_value, 3 * Pow2(i - 1)) % 65536 ELSE BitOr(min_ofs_value, 1)

round_decision(min_ofs_value, i, test_sig_lo, test_sig_hi) ==
    IF test_sig_hi < test_sig_lo
    THEN (IF i > 0 THEN BitOr(min_ofs_value, Pow2(i)) % 65536 ELSE test_ofs_hi(min_ofs_value, 0))
    ELSE min_ofs_value

\* (int16_t) (((int32_t) ofs) - 0x8000)
signed_ofs(ofs) == ofs - 32768

\* what the hardware shows for an input line and an offset
line_regs(inputLine, adc_offset_val) == [rx_muxin_src |-> inputLine, rx_muxin_ofs |-> adc_offset_val]

\* test_sig_lo and test_sig_hi of round i on noise free hardware
steady_sig_lo(inputLine, dcs, min_ofs_value, i) ==
    test_rx_measurement(steady_reads(
        rx_afc_cordic_mag(line_regs(inputLine, signed_ofs(test_ofs_lo(min_ofs_value, i))), dcs)))

steady_sig_hi(inputLine, dcs, min_ofs_value, i) ==
    test_rx_measurement(steady_reads(
        rx_afc_cordic_mag(line_regs(inputLine, signed_ofs(test_ofs_hi(min_ofs_value, i))), dcs)))

\* the decision of round i on noise free hardware: both measurements, then the test
steady_decision(inputLine, dcs, min_ofs_value, i) ==
    round_decision(min_ofs_value, i, steady_sig_lo(inputLine, dcs, min_ofs_value, i),
                   steady_sig_hi(inputLine, dcs, min_ofs_value, i))

\* for (i = 15; i > 0; --i) on noise free hardware, entered at round i:
\* rounds[<< v, hi, lo >>] runs the rounds hi .. lo with min_ofs_value = v,
\* the upper half of them and then the lower half
minimize_from(inputLine, dcs, min_ofs_value, i) ==
    LET rounds[x \in (0..65535) \X (1..15) \X (1..15)] ==
            IF x[2] = x[3] THEN steady_decision(inputLine, dcs, x[1], x[2])
            ELSE rounds[<< rounds[<< x[1], x[2], (x[2] + x[3]) \div 2 + 1 >>],
                           (x[2] + x[3]) \div 2, x[3] >>]
    IN  rounds[<< min_ofs_value, i, 1 >>]

\* the step after the loop: the measurements at min_ofs_value and min_ofs_value | 1,
\* the last decision and the value returned.  Every measurement writes
\* rx_muxin_ofs and rx_muxin_gain and nothing else, so the registers are left
\* as the two measurements of this step leave them.
last_step(m, inputLine, dcs, min_ofs_value) ==
    InOrder(<< min_ofs_value,
               [m |-> test_rx_setup(test_rx_setup(m, signed_ofs(test_ofs_lo(min_ofs_value, 0)),
                                                  reduction_of(0)),
                                    signed_ofs(test_ofs_hi(min_ofs_value, 0)), reduction_of(0)),
                ret |-> signed_ofs(steady_decision(inputLine, dcs, min_ofs_value, 0))] >>)

\* rp_minimize_noise on noise free hardware; inputLine is the line
\* prepare_rx_measurement selected
rp_minimize_noise(m, inputLine, dcs) ==
    last_step(m, inputLine, dcs, minimize_from(inputLine, dcs, 0, 15))

\* prepare_rx_measurement(line); thisOfsValue = rp_minimize_noise();
\* calib_set_ADC_offset(calib_params, line, thisOfsValue);   c: registers and calibration record
offset_stored(ofs, line, found) == [m |-> found.m, ofs |-> [ofs EXCEPT ![line] = found.ret]]

\* the registers prepare_rx_measurement, test_rx_measurement and finish_rx_measurement write
MeasuredRegs ==
    { "ctrl", "pwr_ctrl", "src_con_pnt", "rx_car_osc_inc_lo", "rx_car_osc_inc_hi",
      "rx_muxin_src", "rx_muxin_gain", "rx_muxin_ofs" }

\* log notes for each block the input prepare_rx_measurement left selected in
\* rx_muxin_src, the channel id handed to calib_set_ADC_offset and the value stored
measure_noted(c, line, prepared, s) ==
    [m |-> s.m, ofs |-> s.ofs,
     log |-> Append(c.log, [selected |-> prepared.regs["rx_muxin_src"], stored |-> line,
                            value |-> s.ofs[line]])]

measure_prepared(c, line, prepared, dcs) ==
    measure_noted(c, line, prepared, offset_stored(c.ofs, line, rp_minimize_noise(prepared, line, dcs)))

measure_line(c, k, dcs) ==
    measure_prepared(c, CalibLines[k], prepare_rx_measurement(c.m, CalibLines[k]), dcs)

\* a variant that calibrates the XADC inputs before the ADC inputs
rp_measure_calib_params_xadc_first(m, ofs, dcs) ==
    LET c1 == measure_line([m |-> m, ofs |-> ofs, log |-> << >>], 3, dcs)
        c2 == measure_line(c1, 4, dcs)
        c3 == measure_line(c2, 5, dcs)
        c4 == measure_line(c3, 6, dcs)
        c5 == measure_line(c4, 1, dcs)
        c6 == measure_line(c5, 2, dcs)
    IN  InOrder(<< c1, c2, c3, c4, c5, c6, [c6 EXCEPT !.m = finish_rx_measurement(@)] >>)

\* rp_measure_calib_params: the six input lines one after the other, then
\* finish_rx_measurement; ofs is the calibration record
rp_measure_calib_params(m, ofs, dcs) ==
    LET c1 == measure_line([m |-> m, ofs |-> ofs, log |-> << >>], 1, dcs)
        c2 == measure_line(c1, 2, dcs)
        c3 == measure_line(c2, 3, dcs)
        c4 == measure_line(c3, 4, dcs)
        c5 == measure_line(c4, 5, dcs)
        c6 == measure_line(c5, 6, dcs)
    IN  InOrder(<< c1, c2, c3, c4, c5, c6, [c6 EXCEPT !.m = finish_rx_measurement(@)] >>)

\* fpga_rb_enable(enabled) at the end of fpga_rb_calib, c being what the measurement left
\*   log: what measure_line noted;  left: the measurement's registers before fpga_rb_enable
calib_enabled(c, measured, enabled) ==
    [m |-> enable_writes(c.m, enabled), ofs |-> c.ofs, measured |-> measured, enabled |-> enabled,
     log |-> c.log, left |-> [r \in MeasuredRegs |-> c.m.regs[r]]]

\* a variant that measures whatever calib is
calib_writes_always(m, ofs, dcs, calib, enabled) ==
    calib_enabled(rp_measure_calib_params(m, ofs, dcs), TRUE, enabled)

\* fpga_rb_calib on a mapped window
calib_writes(m, ofs, dcs, calib, enabled) ==
    calib_enabled(IF calib > 0 THEN rp_measure_calib_params(m, ofs, dcs)
                  ELSE [m |-> m, ofs |-> ofs, log |-> << >>],
                  calib > 0, enabled)

(***************************************************************************)
(* fpga_rb_update_all_params, fpga_rb_get_fpga_params                      *)
(***************************************************************************)
\* the local a named parameter of the list overwrites in fpga_rb_update_all_params
ParamLocal ==
    [ tx_modsrc_s |-> "tx_modsrc", tx_modtyp_s |-> "tx_modtyp", rx_modtyp_s |-> "rx_modtyp",
      rbled_csp_s |-> "led_csp", rfout1_csp_s |-> "rfout1_csp", rfout2_csp_s |-> "rfout2_csp",
      rx_muxin_src_s |-> "rx_muxin_src",
      tx_car_osc_qrg_f |-> "tx_car_osc_qrg", rx_car_osc_qrg_f |-> "rx_car_osc_qrg",
      tx_mod_osc_qrg_f |-> "tx_mod_osc_qrg",
      tx_amp_rf_gain_s |-> "tx_amp_rf_gain", tx_mod_osc_mag_s |-> "tx_mod_osc_mag",
      tx_muxin_gain_s |-> "tx_muxin_gain", rx_muxin_gain_s |-> "rx_muxin_gain",
      tx_qrg_sel_s |-> "tx_qrg_sel", rx_qrg_sel_s |-> "rx_qrg_sel",
      rfout1_term_s |-> "rfout1_term", rfout2_term_s |-> "rfout2_term",
      qrg_inc_s |-> "qrg_inc", ac97_lil_s |-> "ac97_lil", ac97_lir_s |-> "ac97_lir" ]

\* a variant of the argument check that lets a null pb pass
params_check_without_pb(ptr, pb_null, p_pn_null, pn_null) ==
    IF ptr = "NULL" \/ p_pn_null THEN -1
    ELSE IF pn_null THEN -2
    ELSE 0

\* the error check both functions start with: -1, -2, or 0 to go on
params_check(ptr, pb_null, p_pn_null, pn_null) ==
    IF ptr = "NULL" \/ pb_null \/ p_pn_null THEN -1
    ELSE IF pn_null THEN -2
    ELSE 0

\* (int) pn[idx].value: an entry holds the integer part of its value in value and
\* the tenths after the point in frac; the conversion drops the fraction
to_int(e) == e.value

\* case "rb_calib": c is what fpga_rb_calib left; the entry's value is set to 0.0;
\* calibs notes for each such entry whether the measurement ran and the run state
\* fpga_rb_enable was called with
calib_applied(st, idx, value, c) ==
    [st EXCEPT !.loc.rb_calib = value, !.m = c.m, !.ofs = c.ofs,
               !.list[idx].value = 0, !.list[idx].frac = 0,
               !.calibs = Append(@, [idx |-> idx, measured |-> c.measured, enabled |-> c.enabled])]

\* the body of the loop for a marked entry, its marker already removed
\* st: m (registers), loc (the loc_ variables), list (pn), ofs (calibration record)
apply_param(st, idx, dcs) ==
    LET e == st.list[idx]
    IN  CASE e.name = "rb_run" ->
                [st EXCEPT !.loc.rb_run = to_int(e), !.m = enable_writes(st.m, to_int(e))]
          [] e.name = "rb_calib" ->
                calib_applied(st, idx, to_int(e),
                              calib_writes(st.m, st.ofs, dcs, to_int(e), st.loc.rb_run))
          [] e.name \in DOMAIN ParamLocal ->
                [st EXCEPT !.loc[ParamLocal[e.name]] = e.value]
          [] OTHER -> st

\* a variant of the loop that takes every entry for marked
RECURSIVE update_loop_all_entries(_, _, _)
update_loop_all_entries(st, idx, dcs) ==
    IF idx > Len(st.list) THEN st
    ELSE LET unmarked == [st EXCEPT !.list[idx].fpga_update = BitClear(@, 128)]
         IN  update_loop_all_entries(apply_param(unmarked, idx, dcs), idx + 1, dcs)

\* for (idx = 0; pn[idx].name; idx++)
RECURSIVE update_loop(_, _, _)
update_loop(st, idx, dcs) ==
    IF idx > Len(st.list) THEN st
    ELSE IF BitAnd(st.list[idx].fpga_update, 128) = 0
         THEN update_loop(st, idx + 1, dcs)
         ELSE LET unmarked == [st EXCEPT !.list[idx].fpga_update = BitClear(@, 128)]
              IN  update_loop(apply_param(unmarked, idx, dcs), idx + 1, dcs)

\* the arguments fpga_rb_update_all_params hands to fpga_rb_set_ctrl
ctrl_args(loc) ==
    [ rb_run |-> loc.rb_run, tx_modsrc |-> loc.tx_modsrc, tx_modtyp |-> loc.tx_modtyp,
      rx_modtyp |-> loc.rx_modtyp,
      src_con_pnt |-> BitOr(BitOr((loc.rfout2_csp % 256) * 16777216, (loc.rfout1_csp % 256) * 65536),
                            loc.led_csp % 256),
      src_con_pnt2 |-> BitOr((loc.ac97_lir % 256) * 256, loc.ac97_lil % 256),
      rx_muxin_src |-> loc.rx_muxin_src,
      tx_car_osc_qrg |-> loc.tx_car_osc_qrg, rx_car_osc_qrg |-> loc.rx_car_osc_qrg,
      tx_mod_osc_qrg |-> loc.tx_mod_osc_qrg, tx_muxin_gain |-> loc.tx_muxin_gain,
      rx_muxin_gain |-> loc.rx_muxin_gain, tx_qrg_sel |-> loc.tx_qrg_sel,
      rx_qrg_sel |-> loc.rx_qrg_sel, tx_amp_rf_gain |-> loc.tx_amp_rf_gain,
      tx_mod_osc_mag |-> loc.tx_mod_osc_mag, term_rfout1 |-> loc.rfout1_term,
      term_rfout2 |-> loc.rfout2_term, qrg_inc |-> loc.qrg_inc ]

\* a variant of the end of fpga_rb_update_all_params that calls fpga_rb_set_ctrl
\* without a look at loc_rb_run
update_ctrl_unconditional(st, o, status) ==
    LET a == ctrl_args(st.loc)
    IN  [m |-> set_ctrl_writes(st.m, o, a, status, st.ofs), olds |-> olds_after(o, a),
         list |-> st.list, ofs |-> st.ofs, loc |-> st.loc, calibs |-> st.calibs]

\* the end of fpga_rb_update_all_params, st being what the loop left:
\* "if (loc_rb_run)" fpga_rb_set_ctrl with the locals
update_ctrl(st, o, status) ==
    LET a == ctrl_args(st.loc)
    IN  IF st.loc.rb_run # 0
        THEN [m |-> set_ctrl_writes(st.m, o, a, status, st.ofs), olds |-> olds_after(o, a),
              list |-> st.list, ofs |-> st.ofs, loc |-> st.loc, calibs |-> st.calibs]
        ELSE [m |-> st.m, olds |-> o, list |-> st.list, ofs |-> st.ofs, loc |-> st.loc,
              calibs |-> st.calibs]

\* fpga_rb_update_all_params past its error checks:
\* the registers, the list, the calibration record and the old values it leaves
update_all_params(r, o, base, list, ofs, dcs, status) ==
    update_ctrl(update_loop([m |-> Mach(r), loc |-> [base EXCEPT !.rb_calib = 0],
                             list |-> list, ofs |-> ofs, calibs |-> << >>], 1, dcs), o, status)

\* fpga_rb_get_ctrl: the carrier frequencies read back, the weaver shift undone
get_ctrl_tx_car_osc_qrg(r, tx_modtyp) ==
    get_osc_qrg(r, "tx_car_osc") +
        (CASE tx_modtyp = RB_TX_MODTYP_USB -> -ssb_weaver_osc_qrg
           [] tx_modtyp = RB_TX_MODTYP_LSB -> ssb_weaver_osc_qrg
           [] OTHER -> 0)

get_ctrl_rx_car_osc_qrg(r, rx_modtyp) ==
    get_osc_qrg(r, "rx_car_osc") +
        (CASE rx_modtyp = RB_RX_MODTYP_USB \/ rx_modtyp = RB_RX_MODTYP_AMSYNC_USB -> -ssb_weaver_osc_qrg
           [] rx_modtyp = RB_TX_MODTYP_LSB \/ rx_modtyp = RB_RX_MODTYP_AMSYNC_LSB -> ssb_weaver_osc_qrg
           [] OTHER -> 0)

\* fpga_rb_get_ovrdrv: (status & 0x00C00000) >> 0x16
get_ovrdrv(status) == (status \div 4194304) % 4

\* main.c (another translation unit): sets the value of the named entry,
\* appending the entry when the list has none of that name
rb_update_param(list, name, value) ==
    IF \E k \in 1..Len(list) : list[k].name = name
    THEN [k \in 1..Len(list) |->
             IF list[k].name = name THEN [list[k] EXCEPT !.value = value, !.frac = 0] ELSE list[k]]
    ELSE Append(list, [name |-> name, value |-> value, frac |-> 0, fpga_update |-> 0])

\* the value the last entry of that name gives, or the base value
RECURSIVE last_value(_, _, _, _)
last_value(list, name, idx, dflt) ==
    IF idx > Len(list) THEN dflt
    ELSE last_value(list, name, idx + 1, IF list[idx].name = name THEN list[idx].value ELSE dflt)

\* fpga_rb_get_fpga_params past its error checks: the list it leaves
get_fpga_params(r, base, list, status) ==
    LET loc_tx_modtyp == last_value(list, "tx_modtyp_s", 1, base.tx_modtyp)
        loc_rx_modtyp == last_value(list, "rx_modtyp_s", 1, base.rx_modtyp)
        loc_qrg_inc == last_value(list, "qrg_inc_s", 1, base.qrg_inc)
        l1 == IF loc_qrg_inc # 50
              THEN rb_update_param(
                       rb_update_param(list, "tx_car_osc_qrg_f", get_ctrl_tx_car_osc_qrg(r, loc_tx_modtyp)),
                       "rx_car_osc_qrg_f", get_ctrl_rx_car_osc_qrg(r, loc_rx_modtyp))
              ELSE list
    IN  rb_update_param(l1, "ovrdrv_s", get_ovrdrv(status))

(***************************************************************************)
(* fpga_rb_init                                                            *)
(***************************************************************************)
\* the version of the FPGA image the application brings along (fn_bit_fresh)
BundledVersion == FPGA_VERSION_MIN

\* fpga_rb_init for pointer ptr, registers r and version register v.
\*   mmap_ok, remap_ok: the outcome of the first and the second fpga_mmap_area
\*   reloaded: copying the bundled image and writing it to /dev/xdevcfg took
\*             effect; none of the system() calls is checked by the code
init_run(ptr, r, v, mmap_ok, remap_ok, reloaded) ==
    LET m0 == enable_on(ptr, Mach(r), 0)                          \* fpga_rb_exit
        ver == get_version("MAPPED", v)
        m1 == enable_writes(m0, 0)                                 \* fpga_rb_exit
        m2 == IF reloaded THEN [m1 EXCEPT !.regs = RegsZero] ELSE m1
        v2 == IF reloaded THEN BundledVersion ELSE v
    IN  IF ~mmap_ok
        THEN [ptr |-> "NULL", m |-> m0, version |-> v, ret |-> -1,
              ver |-> U32(0, 0), fallback |-> FALSE]
        ELSE IF version_outdated(ver)
        THEN IF ~remap_ok
             THEN [ptr |-> "NULL", m |-> m2, version |-> v2, ret |-> -1,
                   ver |-> ver, fallback |-> TRUE]
             ELSE [ptr |-> "MAPPED", m |-> enable_writes(reset_writes(m2), 1), version |-> v2,
                   ret |-> 0, ver |-> ver, fallback |-> TRUE]
        ELSE [ptr |-> "MAPPED", m |-> enable_writes(reset_writes(m0), 1), version |-> v,
              ret |-> 0, ver |-> ver, fallback |-> FALSE]

(***************************************************************************)
(* Inputs of the operations                                                *)
(***************************************************************************)
\* FPGA images found loaded: the current one, an older RadioBox image,
\* an image without the RadioBox sub-module
ImageVersions == { FPGA_VERSION_MIN, U32(5377, 257), U32(0, 0) }

\* argument tuples of fpga_rb_set_ctrl
ArgBase ==
    [ rb_run |-> 1, tx_modsrc |-> RB_MODSRC_MOD_OSC, tx_modtyp |-> RB_TX_MODTYP_USB,
      rx_modtyp |-> RB_RX_MODTYP_USB, src_con_pnt |-> 0, src_con_pnt2 |-> 0,
      rx_muxin_src |-> RB_MODSRC_RF_IN1, tx_car_osc_qrg |-> 0, rx_car_osc_qrg |-> 0,
      tx_mod_osc_qrg |-> 1000, tx_muxin_gain |-> 50, rx_muxin_gain |-> 90,
      tx_qrg_sel |-> 0, rx_qrg_sel |-> 0, tx_amp_rf_gain |-> 100, tx_mod_osc_mag |-> 50,
      term_rfout1 |-> 0, term_rfout2 |-> 0, qrg_inc |-> 50 ]

CtrlArgs ==
    { ArgBase,
      [ArgBase EXCEPT !.rb_run = 0],
      [ArgBase EXCEPT !.src_con_pnt = 807141376, !.tx_car_osc_qrg = MaxQrg,
                      !.rx_car_osc_qrg = -MaxQrg, !.term_rfout1 = 1],
      [ArgBase EXCEPT !.src_con_pnt = 807141376, !.src_con_pnt2 = 5, !.tx_car_osc_qrg = MaxQrg,
                      !.rx_car_osc_qrg = -MaxQrg, !.term_rfout1 = 1, !.term_rfout2 = 2,
                      !.tx_modsrc = RB_MODSRC_RF_IN1, !.tx_modtyp = RB_TX_MODTYP_FM,
                      !.rx_modtyp = RB_RX_MODTYP_AMENV + 16, !.rx_muxin_src = RB_MODSRC_EXP_AI1],
      [ArgBase EXCEPT !.src_con_pnt = 2097152 + 24 * 16777216, !.tx_car_osc_qrg = 1000,
                      !.tx_modsrc = RB_MODSRC_NONE, !.rx_modtyp = RB_RX_MODTYP_FM,
                      !.tx_qrg_sel = 1, !.rx_qrg_sel = 1, !.qrg_inc = 60,
                      !.rx_muxin_src = RB_MODSRC_AC97_LINEOUT_L],
      [ArgBase EXCEPT !.tx_modtyp = RB_TX_MODTYP_PM, !.rx_modtyp = RB_RX_MODTYP_AMSYNC_LSB,
                      !.tx_modsrc = RB_MODSRC_AC97_LINEOUT_R, !.rx_car_osc_qrg = 1000,
                      !.rx_qrg_sel = 1, !.qrg_inc = 20, !.rx_muxin_src = RB_MODSRC_NONE] }

\* what the status register reads: bit 8 is "TX_MOD_OSC phase is zero",
\* bits 22 and 23 are the overdrive flags
StatusReads == { 256, 4194304 }

\* the six arguments fpga_rb_set_ctrl compares with its old values
six_of(a) ==
    << a.src_con_pnt, a.src_con_pnt2, a.term_rfout1, a.term_rfout2, a.tx_car_osc_qrg, a.rx_car_osc_qrg >>

\* base parameter sets of the worker
PbStopped ==
    [ rb_run |-> 0, rb_calib |-> 0, tx_modsrc |-> RB_MODSRC_NONE, tx_modtyp |-> RB_TX_MODTYP_USB,
      rx_modtyp |-> RB_RX_MODTYP_USB, led_csp |-> 0, rfout1_csp |-> 28, rfout2_csp |-> 48,
      rx_muxin_src |-> RB_MODSRC_RF_IN1, tx_car_osc_qrg |-> 1000, rx_car_osc_qrg |-> 1000,
      tx_mod_osc_qrg |-> 1000, tx_muxin_gain |-> 50, rx_muxin_gain |-> 50,
      tx_qrg_sel |-> 0, rx_qrg_sel |-> 0, tx_amp_rf_gain |-> 100, tx_mod_osc_mag |-> 50,
      rfout1_term |-> 0, rfout2_term |-> 0, qrg_inc |-> 50, ac97_lil |-> 0, ac97_lir |-> 0 ]

PbSamples == { PbStopped, [PbStopped EXCEPT !.rb_run = 1, !.tx_modsrc = RB_MODSRC_MOD_OSC] }

\* an entry of the parameter list
Param(name, value, fpga_update) ==
    [name |-> name, value |-> value, frac |-> 0, fpga_update |-> fpga_update]

\* parameter lists the worker hands over; 0x80 in fpga_update is the marker
PnInputs ==
    { << >>,
      << Param("rb_run", 1, 129), Param("tx_car_osc_qrg_f", MaxQrg, 128), Param("qrg_inc_s", 60, 1) >>,
      << Param("rb_calib", 1, 128), Param("ac97_lil_s", 5, 128), Param("rb_run", 0, 0) >>,
      << Param("rb_run", 0, 128), Param("rx_modtyp_s", RB_RX_MODTYP_LSB, 128), Param("foo", 1, 128) >> }

\* hardware: the quietest offset of each input line
DcOfLines == [ch \in Channels |-> 100 * (ch - 24) - 7]

(***************************************************************************)
(* The operations                                                          *)
(***************************************************************************)
\* the record of the last call
Call(op, arg, ret, wr, info) ==
    [op |-> op, arg |-> arg, ret |-> ret, wr |-> wr, info |-> info, ctl |-> {}]

NoCall == Call("none", 0, 0, {}, 0)

\* rp_minimize_noise is not running.  Its record: pc, the line selected, the
\* locals i, min_ofs_value, test_ofs_lo, test_ofs_hi, test_sig_lo, test_sig_hi,
\* min_ofs_value at the start of the last round (before), the rounds done, the
\* calls of test_rx_measurement made (n) and the value returned (ret)
\* trace is what the run has written to rx_muxin_ofs and rx_muxin_gain so far and
\* last is the run before this one: its line, its result and its trace
NoRun == [done |-> FALSE, line |-> 0, ret |-> 0, trace |-> << >>]

CalIdle == [pc |-> "idle", line |-> 0, i |-> 0, min_ofs_value |-> 0, before |-> 0,
            test_ofs_lo |-> 0, test_ofs_hi |-> 0, test_sig_lo |-> 0, test_sig_hi |-> 0,
            rounds |-> 0, n |-> 0, ret |-> 0, trace |-> << >>, last |-> NoRun]

\* the process is alive, not inside rp_minimize_noise, and has calls left
Ready == ~segv /\ cal.pc = "idle" /\ ncalls < MaxCalls

(***************************************************************************)
(* housekeeping.c: the register structure and the window mapped for it     *)
(***************************************************************************)
HOUSEKEEPING_BASE_SIZE == 48                                                \* 0x30

LED_CONTROL_MASK == 255
EX_MASK == 255

\* housekeeping_control_t: thirteen uint32_t members in the order of the declaration
HkFields ==
    << "id", "dna_part1", "dna_part2", "reserved_1", "ex_cd_p", "ex_cd_n", "ex_co_p", "ex_co_n",
       "ex_ci_p", "ex_ci_n", "reserved_2", "reserved_3", "led_control" >>

HkRegs == { HkFields[i] : i \in 1 .. Len(HkFields) }

\* offsetof(housekeeping_control_t, field): uint32_t members, no padding
hk_offset(field) == 4 * ((CHOOSE i \in 1 .. Len(HkFields) : HkFields[i] = field) - 1)

\* the return values of the library
RP_OK == 0
RP_EOMD == 2
RP_EMMD == 4
RP_EOOR == 6
RP_EMRO == 8

\* static volatile housekeeping_control_t *hk = NULL; the LEDs as the board starts them
HkStart(led) ==
    [ptr |-> "NULL", size |-> 0, mem |-> [f \in HkRegs |-> IF f = "led_control" THEN led ELSE 0]]

\* the RadioBox side of the process right after its start
FreshRadioBox ==
    /\ olds = OldsInit
    /\ adc_ofs = [ch \in Channels |-> 0]
    /\ pn = << >>
    /\ cal = CalIdle
    /\ prev6 = << >>
    /\ segv = FALSE
    /\ ncalls = 0

\* the process right after its start: nothing mapped, the statics at their initializers
Fresh == FreshRadioBox /\ hk = HkStart(0)

Init ==
    /\ g_fpga_rb_reg_mem = "NULL"
    /\ regs = RegsZero
    /\ version \in ImageVersions
    /\ adc_dc = DcOfLines
    /\ call = NoCall
    /\ Fresh

\* a call returned ret and left the machine m
Returned(op, arg, ret, m, info) ==
    /\ regs' = m.regs
    /\ call' = [Call(op, arg, ret, m.wr, info) EXCEPT !.ctl = m.ctl]

\* fpga_rb_init returned: run is what init_run gives
init_returned(arg, run) ==
    /\ g_fpga_rb_reg_mem' = run.ptr
    /\ version' = run.version
    /\ Returned("fpga_rb_init", arg, run.ret, run.m,
                [reg |-> version, ver |-> run.ver, fallback |-> run.fallback])

fpga_rb_init ==
    /\ Ready
    /\ \E mmap_ok \in BOOLEAN, remap_ok \in BOOLEAN, reloaded \in BOOLEAN :
         init_returned(<< mmap_ok, remap_ok, reloaded >>,
                       init_run(g_fpga_rb_reg_mem, regs, version, mmap_ok, remap_ok, reloaded))
    /\ prev6' = << >>
    /\ ncalls' = ncalls + 1
    /\ UNCHANGED hk
    /\ UNCHANGED << olds, adc_ofs, adc_dc, pn, cal, segv >>

fpga_rb_exit ==
    /\ Ready
    /\ Returned("fpga_rb_exit", 0, 0, enable_on(g_fpga_rb_reg_mem, Mach(regs), 0), 0)
    /\ g_fpga_rb_reg_mem' = "NULL"
    /\ prev6' = << >>
    /\ ncalls' = ncalls + 1
    /\ UNCHANGED hk
    /\ UNCHANGED << version, olds, adc_ofs, adc_dc, pn, cal, segv >>

fpga_rb_enable ==
    /\ Ready
    /\ \E enable \in {0, 1} :
         Returned("fpga_rb_enable", enable, 0, enable_on(g_fpga_rb_reg_mem, Mach(regs), enable), 0)
    /\ prev6' = << >>
    /\ ncalls' = ncalls + 1
    /\ UNCHANGED hk
    /\ UNCHANGED << g_fpga_rb_reg_mem, version, olds, adc_ofs, adc_dc, pn, cal, segv >>

fpga_rb_reset ==
    /\ Ready
    /\ Returned("fpga_rb_reset", 0, 0, reset_on(g_fpga_rb_reg_mem, Mach(regs)), 0)
    /\ prev6' = << >>
    /\ ncalls' = ncalls + 1
    /\ UNCHANGED hk
    /\ UNCHANGED << g_fpga_rb_reg_mem, version, olds, adc_ofs, adc_dc, pn, cal, segv >>

fpga_get_version ==
    /\ Ready
    /\ call' = Call("fpga_get_version", version, get_version(g_fpga_rb_reg_mem, version), {}, 0)
    /\ prev6' = << >>
    /\ ncalls' = ncalls + 1
    /\ UNCHANGED hk
    /\ UNCHANGED << g_fpga_rb_reg_mem, regs, version, olds, adc_ofs, adc_dc, pn, cal, segv >>

\* fpga_rb_calib returned: c holds the registers and the calibration record it left
calib_returned(arg, c) ==
    /\ adc_ofs' = c.ofs
    /\ Returned("fpga_rb_calib", arg, 0, c.m, [log |-> c.log, left |-> c.left])

\* calib > 0 goes to prepare_rx_measurement, which writes ctrl without a look at the pointer
fpga_rb_calib ==
    /\ Ready
    /\ \E calib \in {0, 1}, enabled \in {0, 1} :
         IF g_fpga_rb_reg_mem = "NULL"
         THEN /\ segv' = (calib > 0)
              /\ call' = Call("fpga_rb_calib", << calib, enabled >>, 0, {}, 0)
              /\ UNCHANGED << regs, adc_ofs >>
         ELSE /\ calib_returned(<< calib, enabled >>,
                                 calib_writes(Mach(regs), adc_ofs, adc_dc, calib, enabled))
              /\ UNCHANGED segv
    /\ prev6' = << >>
    /\ ncalls' = ncalls + 1
    /\ UNCHANGED hk
    /\ UNCHANGED << g_fpga_rb_reg_mem, version, olds, adc_dc, pn, cal >>

\* every path of fpga_rb_set_ctrl accesses a register, none looks at the pointer;
\* the old values are stored before the first access
set_ctrl_with(args) ==
    /\ Ready
    /\ \E a \in args, status \in StatusReads :
         /\ olds' = olds_after(olds, a)
         /\ IF g_fpga_rb_reg_mem = "NULL"
            THEN /\ segv' = TRUE
                 /\ call' = Call("fpga_rb_set_ctrl", a, 0, {}, 0)
                 /\ UNCHANGED regs
            ELSE /\ Returned("fpga_rb_set_ctrl", a, 0,
                             set_ctrl_writes(Mach(regs), olds, a, status, adc_ofs), 0)
                 /\ UNCHANGED segv
    /\ prev6' = IF call.op = "fpga_rb_set_ctrl" THEN six_of(call.arg) ELSE << >>
    /\ ncalls' = ncalls + 1
    /\ UNCHANGED hk
    /\ UNCHANGED << g_fpga_rb_reg_mem, version, adc_ofs, adc_dc, pn, cal >>

fpga_rb_set_ctrl == set_ctrl_with(CtrlArgs)

\* the arguments of the two parameter functions: pb and p_pn may be null and so
\* may *p_pn; a list handed over is a fresh one or the one the call before left
\* the worker's own lists go with the stopped base set, the empty list and the
\* list left behind with every base set; status is what the status register reads
ParamArgs(list) ==
    { [pb_null |-> x[1], p_pn_null |-> x[2], pn_null |-> x[3], pb |-> PbStopped, list |-> << >>,
       status |-> 256] :
        x \in { y \in BOOLEAN \X BOOLEAN \X BOOLEAN : y[1] \/ y[2] \/ y[3] } }
    \cup { [pb_null |-> FALSE, p_pn_null |-> FALSE, pn_null |-> FALSE, pb |-> b, list |-> l,
            status |-> st] :
             b \in PbSamples, l \in {<< >>, list}, st \in StatusReads }
    \cup { [pb_null |-> FALSE, p_pn_null |-> FALSE, pn_null |-> FALSE, pb |-> PbStopped, list |-> l,
            status |-> 256] :
             l \in PnInputs }

\* fpga_rb_update_all_params returned 0: u is what update_all_params gives
update_returned(arg, u) ==
    /\ olds' = u.olds
    /\ adc_ofs' = u.ofs
    /\ pn' = u.list
    /\ Returned("fpga_rb_update_all_params", arg, 0, u.m, [loc |-> u.loc, calibs |-> u.calibs])

update_all_params_with(args) ==
    /\ Ready
    /\ \E arg \in args :
         LET ret == params_check(g_fpga_rb_reg_mem, arg.pb_null, arg.p_pn_null, arg.pn_null)
         IN  IF ret # 0
             THEN /\ call' = Call("fpga_rb_update_all_params", arg, ret, {}, 0)
                  /\ pn' = (IF arg.pn_null \/ arg.p_pn_null THEN pn ELSE arg.list)
                  /\ UNCHANGED << regs, olds, adc_ofs >>
             ELSE update_returned(arg, update_all_params(regs, olds, arg.pb, arg.list, adc_ofs,
                                                         adc_dc, arg.status))
    /\ prev6' = << >>
    /\ ncalls' = ncalls + 1
    /\ UNCHANGED hk
    /\ UNCHANGED << g_fpga_rb_reg_mem, version, adc_dc, cal, segv >>

fpga_rb_update_all_params == update_all_params_with(ParamArgs(pn))

fpga_rb_get_fpga_params ==
    /\ Ready
    /\ \E arg \in ParamArgs(pn) :
         LET ret == params_check(g_fpga_rb_reg_mem, arg.pb_null, arg.p_pn_null, arg.pn_null)
         IN  IF ret # 0
             THEN /\ call' = Call("fpga_rb_get_fpga_params", arg, ret, {}, 0)
                  /\ pn' = (IF arg.pn_null \/ arg.p_pn_null THEN pn ELSE arg.list)
             ELSE /\ call' = Call("fpga_rb_get_fpga_params", arg, 1, {}, 0)
                  /\ pn' = get_fpga_params(regs, arg.pb, arg.list, arg.status)
    /\ prev6' = << >>
    /\ ncalls' = ncalls + 1
    /\ UNCHANGED hk
    /\ UNCHANGED << g_fpga_rb_reg_mem, regs, version, olds, adc_ofs, adc_dc, cal, segv >>

Next ==
    \/ fpga_rb_init
    \/ fpga_rb_exit
    \/ fpga_rb_enable
    \/ fpga_rb_reset
    \/ fpga_get_version
    \/ fpga_rb_calib
    \/ fpga_rb_set_ctrl
    \/ fpga_rb_update_all_params
    \/ fpga_rb_get_fpga_params

Spec == Init /\ [][Next]_vars

\* the worker's use of the module: set-up and the two parameter functions
NextParams ==
    \/ fpga_rb_init
    \/ fpga_rb_update_all_params
    \/ fpga_rb_get_fpga_params

SpecParams == Init /\ [][NextParams]_vars

(***************************************************************************)
(* The lifecycle on its own: many version words                            *)
(***************************************************************************)
\* the halves the version words are put together from: around the bounds of
\* the accepted range, around FPGA_VERSION_MIN, with hex letters, with bit 31
VersionHi == { 0, 4608, 4609, 5394, 5632, 5633, 5793, 10514, 10515, 32768, 65535 }
VersionLo == { 0, 256, 257, 266, 12953, 12954, 65534, 65535 }
VersionSamples == { U32(hi, lo) : hi \in VersionHi, lo \in VersionLo }

InitVer ==
    /\ g_fpga_rb_reg_mem = "NULL"
    /\ regs = RegsZero
    /\ version \in VersionSamples
    /\ adc_dc = DcOfLines
    /\ call = NoCall
    /\ Fresh

NextVer ==
    \/ fpga_rb_init
    \/ fpga_get_version
    \/ fpga_rb_exit

SpecVer == InitVer /\ [][NextVer]_vars

(***************************************************************************)
(* The encoders on their own                                               *)
(***************************************************************************)
\* the registers after a successful fpga_rb_init on a current image
MappedRegs == init_run("NULL", RegsZero, FPGA_VERSION_MIN, TRUE, TRUE, FALSE).m.regs

\* the module mapped by fpga_rb_init and an argument waiting for its setter
Mapped(inputs) ==
    /\ g_fpga_rb_reg_mem = "MAPPED"
    /\ regs = MappedRegs
    /\ version = FPGA_VERSION_MIN
    /\ adc_dc = DcOfLines
    /\ call \in { Call("input", x, 0, {}, 0) : x \in inputs }
    /\ Fresh

\* a setter has run on the waiting argument and left the machine m
Applied(op, m) ==
    /\ regs' = m.regs
    /\ call' = Call(op, call.arg, 0, m.wr, 0)
    /\ prev6' = << >>
    /\ ncalls' = ncalls + 1
    /\ UNCHANGED hk
    /\ UNCHANGED << g_fpga_rb_reg_mem, version, olds, adc_ofs, adc_dc, pn, cal, segv >>

Waiting == Ready /\ call.op = "input"

fpga_rb_set_tx_mod_osc_qrg ==
    Waiting /\ Applied("fpga_rb_set_tx_mod_osc_qrg", set_tx_mod_osc_qrg(Mach(regs), call.arg))

fpga_rb_set_tx_car_osc_qrg ==
    Waiting /\ Applied("fpga_rb_set_tx_car_osc_qrg", set_tx_car_osc_qrg(Mach(regs), call.arg))

fpga_rb_set_rx_car_osc_qrg ==
    Waiting /\ Applied("fpga_rb_set_rx_car_osc_qrg", set_rx_car_osc_qrg(Mach(regs), call.arg))

fpga_rb_set_rx_mod_osc_qrg ==
    Waiting /\ Applied("fpga_rb_set_rx_mod_osc_qrg", set_rx_mod_osc_qrg(Mach(regs), call.arg))

\* frequencies in Hz
QrgInputs == (-MaxQrg) .. MaxQrg

InitQrg == Mapped(QrgInputs)

NextQrg ==
    \/ fpga_rb_set_tx_mod_osc_qrg
    \/ fpga_rb_set_tx_car_osc_qrg
    \/ fpga_rb_set_rx_car_osc_qrg
    \/ fpga_rb_set_rx_mod_osc_qrg

SpecQrg == InitQrg /\ [][NextQrg]_vars

fpga_rb_set_tx_muxin_gain ==
    Waiting /\ Applied("fpga_rb_set_tx_muxin_gain", set_tx_muxin_gain(Mach(regs), call.arg[1], call.arg[2]))

fpga_rb_set_rx_muxin_gain ==
    Waiting /\ Applied("fpga_rb_set_rx_muxin_gain", set_rx_muxin_gain(Mach(regs), call.arg[1], call.arg[2]))

\* a gain in percent and an ADC offset
GainInputs == ((-MaxGain) .. MaxGain) \X {0, -7}

InitGain == Mapped(GainInputs)

NextGain ==
    \/ fpga_rb_set_tx_muxin_gain
    \/ fpga_rb_set_rx_muxin_gain

SpecGain == InitGain /\ [][NextGain]_vars

(***************************************************************************)
(* The calibration on its own                                              *)
(***************************************************************************)
\* hardware: quietest offsets at the ends and in the middle of the int16_t range
DcAt(k) ==
    [ch \in Channels |->
        CASE ch = 32 -> -32768 + k
          [] ch = 33 -> 32767 - k
          [] ch = 24 -> -k
          [] ch = 16 -> k
          [] ch = 17 -> 1000 + 3 * k
          [] ch = 25 -> -1000 - 3 * k]

DcSets == { DcAt(k) : k \in 0..DcSpan }

InitCalib ==
    /\ g_fpga_rb_reg_mem = "MAPPED"
    /\ regs = MappedRegs
    /\ version = FPGA_VERSION_MIN
    /\ adc_dc \in DcSets
    /\ call = NoCall
    /\ Fresh

NextCalib == fpga_rb_calib

SpecCalib == InitCalib /\ [][NextCalib]_vars

\* hardware: the magnitudes the CORDIC register may show during a measurement
MagReads == { 0, 32 }

\* a variant in which min_ofs_value is static and keeps what the run before left in it
minimize_entered_static(line, last) ==
    [CalIdle EXCEPT !.pc = "round", !.line = line, !.i = 15, !.last = last,
                    !.min_ofs_value = IF last.done THEN last.ret + 32768 ELSE 0]

\* uint16_t min_ofs_value = 0x0000;  for (i = 15; ...: the locals of a run that starts
minimize_entered(line, last) == [CalIdle EXCEPT !.pc = "round", !.line = line, !.i = 15, !.last = last]

\* rp_measure_calib_params selects a line and enters rp_minimize_noise
minimize_enter(line) ==
    /\ LET m == prepare_rx_measurement(Mach(regs), line)
       IN  /\ regs' = m.regs
           /\ call' = Call("prepare_rx_measurement", line, 0, m.wr, 0)
    /\ cal' = minimize_entered(line, cal.last)
    /\ prev6' = << >>
    /\ ncalls' = ncalls + 1
    /\ UNCHANGED hk
    /\ UNCHANGED << g_fpga_rb_reg_mem, version, olds, adc_ofs, adc_dc, pn, segv >>

rp_minimize_noise_enter == Waiting /\ minimize_enter(call.arg)

\* two calls of test_rx_measurement in which the hardware shows mag_lo and mag_hi,
\* and the decision
minimize_round(mag_lo, mag_hi) ==
         LET i == cal.i
             lo == test_ofs_lo(cal.min_ofs_value, i)
             hi == test_ofs_hi(cal.min_ofs_value, i)
             m1 == test_rx_setup(Mach(regs), signed_ofs(lo), reduction_of(i))
             test_sig_lo == test_rx_measurement(steady_reads(mag_lo))
             m2 == test_rx_setup(m1, signed_ofs(hi), reduction_of(i))
             test_sig_hi == test_rx_measurement(steady_reads(mag_hi))
             decided == round_decision(cal.min_ofs_value, i, test_sig_lo, test_sig_hi)
         IN  /\ regs' = m2.regs
             /\ cal' = [cal EXCEPT !.pc = IF i = 0 THEN "done" ELSE "round",
                                   !.trace = cal.trace \o << m1.regs["rx_muxin_ofs"], m1.regs["rx_muxin_gain"],
                                                             m2.regs["rx_muxin_ofs"], m2.regs["rx_muxin_gain"] >>,
                                   !.i = i - 1,
                                   !.before = cal.min_ofs_value,
                                   !.min_ofs_value = decided,
                                   !.test_ofs_lo = lo,
                                   !.test_ofs_hi = hi,
                                   !.test_sig_lo = test_sig_lo,
                                   !.test_sig_hi = test_sig_hi,
                                   !.rounds = cal.rounds + 1,
                                   !.n = cal.n + 2,
                                   !.ret = IF i = 0 THEN signed_ofs(decided) ELSE 0]

\* one pass of the loop of rp_minimize_noise (i > 0) or the step after it
\* (i = 0): two calls of test_rx_measurement and the decision; the hardware
\* shows any of the magnitudes in each call
rp_minimize_noise_round ==
    /\ ~segv
    /\ cal.pc = "round"
    /\ \E mag_lo \in MagReads, mag_hi \in MagReads : minimize_round(mag_lo, mag_hi)
    /\ UNCHANGED << g_fpga_rb_reg_mem, version, olds, adc_ofs, adc_dc, pn, call, prev6, segv, ncalls, hk >>

\* rp_minimize_noise returns and rp_measure_calib_params stores the offset
rp_minimize_noise_return ==
    /\ ~segv
    /\ cal.pc = "done"
    /\ adc_ofs' = [adc_ofs EXCEPT ![cal.line] = cal.ret]
    /\ call' = Call("rp_minimize_noise", cal.line, cal.ret, {}, 0)
    /\ cal' = [cal EXCEPT !.pc = "idle",
                          !.last = [done |-> TRUE, line |-> cal.line, ret |-> cal.ret, trace |-> cal.trace]]
    /\ UNCHANGED << g_fpga_rb_reg_mem, regs, version, olds, adc_dc, pn, prev6, segv, ncalls, hk >>

InitCalibAny == Mapped({ 24 })

NextCalibAny ==
    \/ rp_minimize_noise_enter
    \/ rp_minimize_noise_round
    \/ rp_minimize_noise_return

SpecCalibAny == InitCalibAny /\ [][NextCalibAny]_vars

(***************************************************************************)
(* rp_minimize_noise run on one line after the other                       *)
(***************************************************************************)
\* the lines measured; the first two share their hardware offset
SharedLines == {16, 24, 17}

DcSamples == {-32768, -3, 0, 1000}

SharedDcs ==
    { [ch \in Channels |-> IF ch \in {16, 24} THEN d[1] ELSE d[2]] : d \in DcSamples \X DcSamples }

\* rp_measure_calib_params goes on to a line: prepare_rx_measurement(line); rp_minimize_noise()
rp_minimize_noise_next_line ==
    /\ Ready
    /\ \E line \in SharedLines : minimize_enter(line)

\* a pass of rp_minimize_noise on noise free hardware: each call of test_rx_measurement
\* reads the magnitude that belongs to the offset it has just written
rp_minimize_noise_round_steady ==
    /\ ~segv
    /\ cal.pc = "round"
    /\ minimize_round(
           rx_afc_cordic_mag(line_regs(cal.line, signed_ofs(test_ofs_lo(cal.min_ofs_value, cal.i))), adc_dc),
           rx_afc_cordic_mag(line_regs(cal.line, signed_ofs(test_ofs_hi(cal.min_ofs_value, cal.i))), adc_dc))
    /\ UNCHANGED << g_fpga_rb_reg_mem, version, olds, adc_ofs, adc_dc, pn, call, prev6, segv, ncalls, hk >>

InitCalibRuns ==
    /\ g_fpga_rb_reg_mem = "MAPPED"
    /\ regs = MappedRegs
    /\ version = FPGA_VERSION_MIN
    /\ adc_dc \in SharedDcs
    /\ call = NoCall
    /\ Fresh

NextCalibRuns ==
    \/ rp_minimize_noise_next_line
    \/ rp_minimize_noise_round_steady
    \/ rp_minimize_noise_return

SpecCalibRuns == InitCalibRuns /\ [][NextCalibRuns]_vars

(***************************************************************************)
(* fpga_rb_init statement by statement                                     *)
(***************************************************************************)
\* the position inside fpga_rb_init, kept in the info of the call record:
\*   pc       the statement to run next
\*   maps     the calls of fpga_mmap_area made, reloads the runs of
\*            fpga_rb_prepare_file + fpga_rb_reload_fpga
\*   checked  fpga_get_version was called, reg is the version register it
\*            read and ver the value it returned
\*   enabled  fpga_rb_enable(1) was called
\*   steps    the statements run so far
InitEntered ==
    [pc |-> "exit", maps |-> 0, reloads |-> 0, checked |-> FALSE, reg |-> U32(0, 0),
     ver |-> U32(0, 0), enabled |-> FALSE, steps |-> 0]

InInit(pc) == call.op = "fpga_rb_init" /\ call.ret = 1 /\ call.info.pc = pc /\ ~segv

\* the call record after one more statement
init_stepped(m, ret, info) ==
    [Call("fpga_rb_init", 0, ret, m.wr, [info EXCEPT !.steps = @ + 1]) EXCEPT !.ctl = m.ctl]

\* the registers the call has written so far
InitMach == [regs |-> regs, wr |-> call.wr, ctl |-> call.ctl]

\* the call of fpga_rb_init: ret = 1 stands for "has not returned yet"
fpga_rb_init_enter ==
    /\ ~segv
    /\ ncalls < MaxCalls
    /\ ~(call.op = "fpga_rb_init" /\ call.ret = 1)
    /\ call' = Call("fpga_rb_init", 0, 1, {}, InitEntered)
    /\ ncalls' = ncalls + 1
    /\ UNCHANGED hk
    /\ prev6' = << >>
    /\ UNCHANGED << g_fpga_rb_reg_mem, regs, version, olds, adc_ofs, adc_dc, pn, cal, segv >>

\* fpga_rb_exit(): "make sure all previous data is vanished"
fpga_rb_init_exit ==
    /\ InInit("exit")
    /\ LET m == enable_on(g_fpga_rb_reg_mem, InitMach, 0)
       IN  /\ regs' = m.regs
           /\ call' = init_stepped(m, 1, [call.info EXCEPT !.pc = "mmap"])
    /\ g_fpga_rb_reg_mem' = "NULL"
    /\ UNCHANGED << version, olds, adc_ofs, adc_dc, pn, cal, prev6, segv, ncalls, hk >>

\* fpga_mmap_area, the first or the second one; a failure ends the call with -1
fpga_rb_init_mmap ==
    /\ InInit("mmap")
    /\ \E ok \in BOOLEAN :
         /\ g_fpga_rb_reg_mem' = IF ok THEN "MAPPED" ELSE "NULL"
         /\ call' = init_stepped(InitMach, IF ok THEN 1 ELSE -1,
                                 [call.info EXCEPT !.maps = @ + 1,
                                                   !.pc = IF ~ok THEN "done"
                                                          ELSE IF call.info.checked THEN "enable"
                                                          ELSE "version"])
    /\ UNCHANGED << regs, version, olds, adc_ofs, adc_dc, pn, cal, prev6, segv, ncalls, hk >>

\* uint32_t ver = fpga_get_version(); if ((ver < FPGA_VERSION_MIN) || (ver & 0x80000000))
fpga_rb_init_version ==
    /\ InInit("version")
    /\ LET ver == get_version(g_fpga_rb_reg_mem, version)
       IN  call' = init_stepped(InitMach, 1,
                                [call.info EXCEPT !.checked = TRUE, !.reg = version, !.ver = ver,
                                                  !.pc = IF version_outdated(ver) THEN "fallback"
                                                         ELSE "enable"])
    /\ UNCHANGED << g_fpga_rb_reg_mem, regs, version, olds, adc_ofs, adc_dc, pn, cal, prev6, segv, ncalls, hk >>

\* fpga_rb_exit(); fpga_rb_prepare_file(); fpga_rb_reload_fpga(): the image
\* the application brings along gets into the FPGA or it does not
fpga_rb_init_fallback ==
    /\ InInit("fallback")
    /\ \E reloaded \in BOOLEAN :
         LET m == enable_on(g_fpga_rb_reg_mem, InitMach, 0)
         IN  /\ regs' = IF reloaded THEN RegsZero ELSE m.regs
             /\ version' = IF reloaded THEN BundledVersion ELSE version
             /\ call' = init_stepped(m, 1, [call.info EXCEPT !.reloads = @ + 1, !.pc = "mmap"])
    /\ g_fpga_rb_reg_mem' = "NULL"
    /\ UNCHANGED << olds, adc_ofs, adc_dc, pn, cal, prev6, segv, ncalls, hk >>

\* fpga_rb_reset(); fpga_rb_enable(1); return 0;
fpga_rb_init_enable ==
    /\ InInit("enable")
    /\ LET m == enable_on(g_fpga_rb_reg_mem, reset_on(g_fpga_rb_reg_mem, InitMach), 1)
       IN  /\ regs' = m.regs
           /\ call' = init_stepped(m, 0, [call.info EXCEPT !.enabled = TRUE, !.pc = "done"])
    /\ UNCHANGED << g_fpga_rb_reg_mem, version, olds, adc_ofs, adc_dc, pn, cal, prev6, segv, ncalls, hk >>

\* the module before a call of fpga_rb_init: never mapped, or left running by
\* an earlier fpga_rb_init
InitSteps ==
    /\ g_fpga_rb_reg_mem \in { "NULL", "MAPPED" }
    /\ regs = IF g_fpga_rb_reg_mem = "MAPPED" THEN MappedRegs ELSE RegsZero
    /\ version \in VersionSamples
    /\ adc_dc = DcOfLines
    /\ call = NoCall
    /\ Fresh

NextSteps ==
    \/ fpga_rb_init_enter
    \/ fpga_rb_init_exit
    \/ fpga_rb_init_mmap
    \/ fpga_rb_init_version
    \/ fpga_rb_init_fallback
    \/ fpga_rb_init_enable

SpecSteps == InitSteps /\ [][NextSteps]_vars

(***************************************************************************)
(* fpga_rb_set_ctrl read back by fpga_rb_get_ctrl                          *)
(***************************************************************************)
TxModtyps == {RB_TX_MODTYP_USB, RB_TX_MODTYP_LSB, RB_TX_MODTYP_AM, RB_TX_MODTYP_FM, RB_TX_MODTYP_PM}

RxModtyps == {RB_RX_MODTYP_USB, RB_RX_MODTYP_LSB, RB_RX_MODTYP_AMSYNC_USB, RB_RX_MODTYP_AMSYNC_LSB,
              RB_RX_MODTYP_FM, RB_RX_MODTYP_PM, RB_RX_MODTYP_AMENV}

\* carrier frequencies: below and above the Weaver shift, zero, negative
CarrierSamples == {-MaxQrg, 0, 1000, MaxQrg}

\* the two switches of fpga_rb_set_ctrl are independent: every TX type and every RX type
\* occurs in one of the pairs
ModtypPairs ==
    { <<RB_TX_MODTYP_USB, RB_RX_MODTYP_USB>>, <<RB_TX_MODTYP_LSB, RB_RX_MODTYP_LSB>>,
      <<RB_TX_MODTYP_AM, RB_RX_MODTYP_AMSYNC_USB>>, <<RB_TX_MODTYP_FM, RB_RX_MODTYP_AMSYNC_LSB>>,
      <<RB_TX_MODTYP_PM, RB_RX_MODTYP_FM>>, <<RB_TX_MODTYP_USB, RB_RX_MODTYP_PM>>,
      <<RB_TX_MODTYP_LSB, RB_RX_MODTYP_AMENV>> }

\* the radio running, a modulation source selected, the scanner at rest
ReadBackArgs ==
    { [ArgBase EXCEPT !.tx_modtyp = p[1], !.rx_modtyp = p[2], !.tx_car_osc_qrg = f,
                      !.rx_car_osc_qrg = MaxQrg - f,
                      !.tx_modsrc = IF f = 1000 THEN RB_MODSRC_RF_IN2 ELSE RB_MODSRC_MOD_OSC,
                      !.tx_qrg_sel = IF f = 0 THEN 1 ELSE 0,
                      !.rx_qrg_sel = IF f = 0 THEN 1 ELSE 0] :
        p \in ModtypPairs, f \in CarrierSamples }

fpga_rb_set_ctrl_running == set_ctrl_with(ReadBackArgs)

\* fpga_rb_get_ctrl called with the modulation types of the fpga_rb_set_ctrl call before it
fpga_rb_get_ctrl ==
    /\ Ready
    /\ call.op = "fpga_rb_set_ctrl"
    /\ call' = Call("fpga_rb_get_ctrl", call.arg, 0, {},
                    [tx_car_osc_qrg |-> get_ctrl_tx_car_osc_qrg(regs, call.arg.tx_modtyp),
                     rx_car_osc_qrg |-> get_ctrl_rx_car_osc_qrg(regs, call.arg.rx_modtyp)])
    /\ prev6' = << >>
    /\ ncalls' = ncalls + 1
    /\ UNCHANGED hk
    /\ UNCHANGED << g_fpga_rb_reg_mem, regs, version, olds, adc_ofs, adc_dc, pn, cal, segv >>

InitReadBack ==
    /\ g_fpga_rb_reg_mem = "MAPPED"
    /\ regs = MappedRegs
    /\ version = FPGA_VERSION_MIN
    /\ adc_dc = DcOfLines
    /\ call = NoCall
    /\ Fresh

NextReadBack ==
    \/ fpga_rb_set_ctrl_running
    \/ fpga_rb_get_ctrl

SpecReadBack == InitReadBack /\ [][NextReadBack]_vars


(***************************************************************************)
(* housekeeping.c: the operations                                          *)
(***************************************************************************)
\* the bit accessors of the library:
\*   cmn_SetBits:    bits outside the mask are refused, else *field |= bits
\*   cmn_UnsetBits:  bits outside the mask are refused, else *field &= ~bits
\*   cmn_AreBitsSet: bits outside the mask are refused, else *result = ((field & bits) == bits)
cmn_SetBits(field, bits, mask) ==
    IF BitClear(bits, mask) # 0
    THEN [ret |-> RP_EOOR, field |-> field]
    ELSE [ret |-> RP_OK, field |-> BitOr(field, bits)]

cmn_UnsetBits(field, bits, mask) ==
    IF BitClear(bits, mask) # 0
    THEN [ret |-> RP_EOOR, field |-> field]
    ELSE [ret |-> RP_OK, field |-> BitClear(field, bits)]

cmn_AreBitsSet(field, bits, mask) ==
    IF BitClear(bits, mask) # 0
    THEN [ret |-> RP_EOOR, result |-> FALSE]
    ELSE [ret |-> RP_OK, result |-> BitAnd(field, bits) = bits]

\* arguments of the accessors: inside the mask, outside of it, with and without bit 0
BitsSamples == {0, 1, 2, 3, 128, 254, 255, 256, 65537}

\* the first three LEDs as the board may have them
LedStarts == {0, 1, 6}

HkCallable == ~segv /\ ncalls < MaxCalls

\* what an operation of the housekeeping module leaves alone
HkCalled ==
    /\ ncalls' = ncalls + 1
    /\ UNCHANGED << g_fpga_rb_reg_mem, regs, version, olds, adc_ofs, adc_dc, pn, cal, prev6 >>

\* an accessor has run on hk->field: acc is what it returned and left in the field;
\* info keeps the byte offset of the access, the size of the window and the old value
hk_accessed(op, field, bits, acc) ==
    /\ IF hk.ptr = "NULL"
       THEN /\ segv' = TRUE
            /\ call' = Call(op, bits, RP_OK, {}, [offset |-> hk_offset(field), size |-> hk.size,
                                                   before |-> hk.mem[field], result |-> FALSE])
            /\ UNCHANGED hk
       ELSE /\ hk' = IF "field" \in DOMAIN acc THEN [hk EXCEPT !.mem[field] = acc.field] ELSE hk
            /\ call' = Call(op, bits, acc.ret,
                            IF "field" \in DOMAIN acc /\ acc.ret = RP_OK THEN {field} ELSE {},
                            [offset |-> hk_offset(field), size |-> hk.size, before |-> hk.mem[field],
                             result |-> IF "result" \in DOMAIN acc THEN acc.result ELSE FALSE])
            /\ UNCHANGED segv
    /\ HkCalled

hk_SetBits(op, field, mask) ==
    HkCallable /\ \E bits \in BitsSamples : hk_accessed(op, field, bits, cmn_SetBits(hk.mem[field], bits, mask))

hk_UnsetBits(op, field, mask) ==
    HkCallable /\ \E bits \in BitsSamples : hk_accessed(op, field, bits, cmn_UnsetBits(hk.mem[field], bits, mask))

hk_AreBitsSet(op, field, mask) ==
    HkCallable /\ \E bits \in BitsSamples : hk_accessed(op, field, bits, cmn_AreBitsSet(hk.mem[field], bits, mask))

\* ECHECK(cmn_Init()); ECHECK(cmn_Map(HOUSEKEEPING_BASE_SIZE, HOUSEKEEPING_BASE_ADDR, &hk));
\* opening the memory device and mapping it may each fail
hk_Init ==
    /\ HkCallable
    /\ \E opened \in BOOLEAN, mapped \in BOOLEAN :
         /\ hk' = IF opened /\ mapped
                  THEN [hk EXCEPT !.ptr = "MAPPED", !.size = HOUSEKEEPING_BASE_SIZE]
                  ELSE hk
         /\ call' = Call("hk_Init", 0,
                         IF ~opened THEN RP_EOMD ELSE IF ~mapped THEN RP_EMMD ELSE RP_OK, {}, 0)
    /\ UNCHANGED segv
    /\ HkCalled

\* ECHECK(cmn_Unmap(HOUSEKEEPING_BASE_SIZE, &hk)); ECHECK(cmn_Release());
hk_Release ==
    /\ HkCallable
    /\ hk' = [hk EXCEPT !.ptr = "NULL", !.size = 0]
    /\ call' = Call("hk_Release", 0, RP_OK, {}, 0)
    /\ UNCHANGED segv
    /\ HkCalled

\* if (bits == 0x1) return RP_EMRO;  return cmn_SetBits(&hk->led_control, bits, LED_CONTROL_MASK);
hk_SetLedBits ==
    /\ HkCallable
    /\ \E bits \in BitsSamples :
         IF bits = 1
         THEN /\ call' = Call("hk_SetLedBits", bits, RP_EMRO, {},
                              [offset |-> -1, size |-> hk.size, before |-> hk.mem["led_control"],
                               result |-> FALSE])
              /\ UNCHANGED << hk, segv >>
              /\ HkCalled
         ELSE hk_accessed("hk_SetLedBits", "led_control", bits,
                          cmn_SetBits(hk.mem["led_control"], bits, LED_CONTROL_MASK))

hk_UnsetLedBits == hk_UnsetBits("hk_UnsetLedBits", "led_control", LED_CONTROL_MASK)
hk_AreLedBitsSet == hk_AreBitsSet("hk_AreLedBitsSet", "led_control", LED_CONTROL_MASK)

hk_SetExCdPBits == hk_SetBits("hk_SetExCdPBits", "ex_cd_p", EX_MASK)
hk_UnsetExCdPBits == hk_UnsetBits("hk_UnsetExCdPBits", "ex_cd_p", EX_MASK)
hk_AreExCdPBitsSet == hk_AreBitsSet("hk_AreExCdPBitsSet", "ex_cd_p", EX_MASK)

hk_SetExCdNBits == hk_SetBits("hk_SetExCdNBits", "ex_cd_n", EX_MASK)
hk_UnsetExCdNBits == hk_UnsetBits("hk_UnsetExCdNBits", "ex_cd_n", EX_MASK)
hk_AreExCdNBitsSet == hk_AreBitsSet("hk_AreExCdNBitsSet", "ex_cd_n", EX_MASK)

hk_SetExCoPBits == hk_SetBits("hk_SetExCoPBits", "ex_co_p", EX_MASK)
hk_UnsetExCoPBits == hk_UnsetBits("hk_UnsetExCoPBits", "ex_co_p", EX_MASK)
hk_AreExCoPBitsSet == hk_AreBitsSet("hk_AreExCoPBitsSet", "ex_co_p", EX_MASK)

hk_SetExCoNBits == hk_SetBits("hk_SetExCoNBits", "ex_co_n", EX_MASK)
hk_UnsetExCoNBits == hk_UnsetBits("hk_UnsetExCoNBits", "ex_co_n", EX_MASK)
hk_AreExCoNBitsSet == hk_AreBitsSet("hk_AreExCoNBitsSet", "ex_co_n", EX_MASK)

hk_AreExCiPBitsSet == hk_AreBitsSet("hk_AreExCiPBitsSet", "ex_ci_p", EX_MASK)
hk_AreExCiNBitsSet == hk_AreBitsSet("hk_AreExCiNBitsSet", "ex_ci_n", EX_MASK)

InitHk ==
    /\ g_fpga_rb_reg_mem = "NULL"
    /\ regs = RegsZero
    /\ version = FPGA_VERSION_MIN
    /\ adc_dc = DcOfLines
    /\ call = NoCall
    /\ FreshRadioBox
    /\ hk \in { HkStart(led) : led \in LedStarts }

NextHk ==
    \/ hk_Init
    \/ hk_Release
    \/ hk_SetLedBits
    \/ hk_UnsetLedBits
    \/ hk_AreLedBitsSet
    \/ hk_SetExCdPBits
    \/ hk_UnsetExCdPBits
    \/ hk_AreExCdPBitsSet
    \/ hk_SetExCdNBits
    \/ hk_UnsetExCdNBits
    \/ hk_AreExCdNBitsSet
    \/ hk_SetExCoPBits
    \/ hk_UnsetExCoPBits
    \/ hk_AreExCoPBitsSet
    \/ hk_SetExCoNBits
    \/ hk_UnsetExCoNBits
    \/ hk_AreExCoNBitsSet
    \/ hk_AreExCiPBitsSet
    \/ hk_AreExCiNBitsSet

SpecHk == InitHk /\ [][NextHk]_vars

(***************************************************************************)
(* fpga_rb_update_all_params on the lists of the worker                    *)
(***************************************************************************)
\* lists with marked and unmarked entries, entries of one name, unknown names,
\* rb_calib before, between and after rb_run, and a value between 0 and 1
ListInputs ==
    { << Param("rb_run", 1, 129), Param("tx_car_osc_qrg_f", MaxQrg, 128), Param("qrg_inc_s", 60, 1) >>,
      << Param("tx_muxin_gain_s", 10, 128), Param("tx_muxin_gain_s", 20, 3), Param("rb_run", 1, 128),
         Param("foo", 1, 130) >>,
      << Param("rb_run", 1, 128), Param("rb_calib", 1, 128), Param("rb_run", 0, 128) >>,
      << Param("rb_calib", 1, 0), Param("rb_calib", 0, 128), Param("rb_calib", -1, 192),
         Param("rb_calib", 2, 128) >>,
      << [Param("rb_calib", 0, 128) EXCEPT !.frac = 5], Param("rb_run", 1, 0) >> }

\* the worker marks every entry of the list again
Remarked(list) == [k \in 1..Len(list) |-> [list[k] EXCEPT !.fpga_update = BitOr(@, 128)]]

\* a base set in which rb_calib is set
PbCalib == [PbStopped EXCEPT !.rb_calib = 1, !.rb_run = 1, !.tx_modsrc = RB_MODSRC_RF_IN1]

ListArgs(list) ==
    { [pb_null |-> FALSE, p_pn_null |-> FALSE, pn_null |-> FALSE, pb |-> b, list |-> l, status |-> 256] :
        b \in PbSamples \cup {PbCalib}, l \in ListInputs \cup {list, Remarked(list)} }

fpga_rb_update_all_params_worker == update_all_params_with(ListArgs(pn))

NextLists == fpga_rb_update_all_params_worker

SpecLists == InitReadBack /\ [][NextLists]_vars

(***************************************************************************)
(* fpga_rb_set_ctrl with the frequency scanner                             *)
(***************************************************************************)
\* positions of the frequency slider: its ends, its centre and both sides of the
\* borders of the range in which the scanner stands still
QrgIncSamples == {0, 45, 46, 50, 54, 55, 100}

\* which of the carriers the slider acts on: <<tx_qrg_sel, rx_qrg_sel>>
QrgSelSamples == { <<0, 0>>, <<1, 1>>, <<1, 0>> }

ScanModtyps ==
    { <<RB_TX_MODTYP_USB, RB_RX_MODTYP_LSB>>, <<RB_TX_MODTYP_LSB, RB_RX_MODTYP_AMSYNC_USB>>,
      <<RB_TX_MODTYP_PM, RB_RX_MODTYP_FM>> }

\* the requested carrier frequencies differ from call to call
ScanArgs ==
    { [ArgBase EXCEPT !.tx_modtyp = p[1], !.rx_modtyp = p[2], !.qrg_inc = i,
                      !.tx_qrg_sel = q[1], !.rx_qrg_sel = q[2],
                      !.tx_car_osc_qrg = 1000 + 10 * i + p[1], !.rx_car_osc_qrg = MaxQrg - 10 * i - p[2]] :
        p \in ScanModtyps, i \in QrgIncSamples, q \in QrgSelSamples }

fpga_rb_set_ctrl_scanning == set_ctrl_with(ScanArgs)

NextScan == fpga_rb_set_ctrl_scanning

SpecScan == InitReadBack /\ [][NextScan]_vars

(***************************************************************************)
(* Properties                                                              *)
(***************************************************************************)
\* the registers of the block fpga_rb_set_ctrl guards with its old values
GuardedRegs == {"rfout1_gain", "rfout1_ofs", "rfout2_gain", "rfout2_ofs", "src_con_pnt", "src_con_pnt2"}

SetCtrlReturned == call.op = "fpga_rb_set_ctrl" /\ ~segv

\* C2: a call of fpga_rb_set_ctrl that repeats the six cached values of the
\* call right before it writes none of rfout1_gain, rfout1_ofs, rfout2_gain,
\* rfout2_ofs, src_con_pnt, src_con_pnt2.
C2_RepeatedValuesWriteNothing ==
    (SetCtrlReturned /\ prev6 = six_of(call.arg)) => call.wr \cap GuardedRegs = {}

\* C3: whenever fpga_rb_set_ctrl has returned, src_con_pnt and src_con_pnt2
\* hold the src_con_pnt and src_con_pnt2 of that call.
C3_ConnectionPointsFollowCall ==
    SetCtrlReturned =>
        /\ regs["src_con_pnt"] = call.arg.src_con_pnt
        /\ regs["src_con_pnt2"] = call.arg.src_con_pnt2

\* C4: no operation accesses a register while the pointer to the register
\* window is null.
C4_NoAccessThroughNull == ~segv

ParamOps == {"fpga_rb_update_all_params", "fpga_rb_get_fpga_params"}

\* the return value the argument check of the two parameter functions calls for
ParamErrorOf(ptr, arg) ==
    IF ptr = "NULL" \/ arg.pb_null \/ arg.p_pn_null THEN -1
    ELSE IF arg.pn_null THEN -2
    ELSE 0

\* C5: fpga_rb_update_all_params and fpga_rb_get_fpga_params return -1 when the
\* module is not mapped or pb or p_pn is null, and -2 when *p_pn is null; either
\* way no register is written, no entry of the list changes and the old values
\* of fpga_rb_set_ctrl and the calibration record stay as they are.
C5_ParamErrorsChangeNothing ==
    [][ (call'.op \in ParamOps /\ ncalls' = ncalls + 1) =>
          /\ (ParamErrorOf(g_fpga_rb_reg_mem, call'.arg) # 0
                => call'.ret = ParamErrorOf(g_fpga_rb_reg_mem, call'.arg))
          /\ (ParamErrorOf(g_fpga_rb_reg_mem, call'.arg) = 0 => call'.ret >= 0)
          /\ (call'.ret < 0 =>
                /\ call'.wr = {}
                /\ regs' = regs
                /\ olds' = olds
                /\ adc_ofs' = adc_ofs
                /\ pn' = (IF call'.arg.p_pn_null \/ call'.arg.pn_null THEN pn ELSE call'.arg.list)) ]_vars

\* C5: fpga_rb_get_fpga_params has refused a null pb on a mapped module whose
\* old values and registers are no longer the initial ones
C5_Witness ==
    /\ call.op = "fpga_rb_get_fpga_params"
    /\ call.ret = -1
    /\ call.arg.pb_null
    /\ g_fpga_rb_reg_mem = "MAPPED"
    /\ olds # OldsInit
    /\ regs # RegsZero

\* C9: fpga_rb_init returns 0 only when the version register mapped at its
\* return holds a valid version that is not older than FPGA_VERSION_MIN.
C9_InitSuccessMeansCurrentImage ==
    (call.op = "fpga_rb_init" /\ call.ret = 0) =>
        ~version_outdated(get_version(g_fpga_rb_reg_mem, version))

\* k is the fraction n / d (d > 0) rounded to the nearest integer, halves away from zero
HalfAwayRounded(k, n, d) ==
    IF n >= 0
    THEN 2 * k * d <= 2 * n + d /\ 2 * n + d < 2 * (k + 1) * d
    ELSE 2 * (-k) * d <= 2 * (-n) + d /\ 2 * (-n) + d < 2 * ((-k) + 1) * d

\* the oscillator each frequency setter serves
OscOf(op) ==
    CASE op = "fpga_rb_set_tx_mod_osc_qrg" -> "tx_mod_osc"
      [] op = "fpga_rb_set_tx_car_osc_qrg" -> "tx_car_osc"
      [] op = "fpga_rb_set_rx_car_osc_qrg" -> "rx_car_osc"
      [] op = "fpga_rb_set_rx_mod_osc_qrg" -> "rx_mod_osc"

QrgSetters ==
    { "fpga_rb_set_tx_mod_osc_qrg", "fpga_rb_set_tx_car_osc_qrg",
      "fpga_rb_set_rx_car_osc_qrg", "fpga_rb_set_rx_mod_osc_qrg" }

\* the signed number in the inc_hi:inc_lo pair of an oscillator
IncOf(osc) == pair_value(regs[osc \o "_inc_hi"], regs[osc \o "_inc_lo"])

\* C1: each of the four frequency setters leaves in inc_hi:inc_lo the number
\* f / base * 2^AccBits rounded half away from zero, for both signs of f, and
\* so the negation of what it writes for -f.
C1_IncrementRoundsHalfAway ==
    call.op \in QrgSetters =>
        /\ HalfAwayRounded(IncOf(OscOf(call.op)), call.arg * Pow2(AccBits), BaseOscHz)
        /\ IncOf(OscOf(call.op)) = -qrg_bitfield(-call.arg)

GainSetters == { "fpga_rb_set_tx_muxin_gain", "fpga_rb_set_rx_muxin_gain" }

\* the gain register and the largest booster shift of each gain setter
GainRegOf(op) == IF op = "fpga_rb_set_tx_muxin_gain" THEN "tx_muxin_gain" ELSE "rx_muxin_gain"
TopBoosterOf(op) == IF op = "fpga_rb_set_tx_muxin_gain" THEN 7 ELSE 5

\* C8: for every gain g the setter writes 0 for g <= 0, the rounded
\* g * 65535 / 80 without booster for g = 1 .. 79, and 0xFFFF with the booster
\* round((min(g, 100) - 80) * top / 20) above, top being 7 for TX and 5 for RX;
\* the booster stays within top and the word never falls when g grows.
C8_GainEncoding ==
    call.op \in GainSetters =>
        LET g == call.arg[1]
            top == TopBoosterOf(call.op)
            word == regs[GainRegOf(call.op)]
            low == word % 65536
            booster == word \div 65536
            capped == IF g > 100 THEN 100 ELSE g
        IN  /\ g <= 0 => word = 0
            /\ (1 <= g /\ g <= 79) => booster = 0 /\ HalfAwayRounded(low, g * 65535, 80)
            /\ g >= 80 => low = 65535 /\ HalfAwayRounded(booster, (capped - 80) * top, 20)
            /\ booster <= top
            /\ word >= muxin_gain_bitfield(g - 1, top)

\* C8: the TX setter was given 90 percent, where the booster is the half 3.5 rounded to 4
C8_Witness ==
    /\ call.op = "fpga_rb_set_tx_muxin_gain"
    /\ call.arg[1] = 90
    /\ regs["tx_muxin_gain"] = 4 * 65536 + 65535

\* the eight nibbles of a version word, the highest first
Hex4(h) == << h \div 4096, (h \div 256) % 16, (h \div 16) % 16, h % 16 >>
Nibbles(v) == Hex4(v[1]) \o Hex4(v[2])

\* a < b for two rows of eight nibbles
NibblesLess(a, b) == \E k \in 1..8 : a[k] < b[k] /\ \A j \in 1..(k - 1) : a[j] = b[j]

\* a date and serial number: within 12010101 .. 29123299 and without hex letters
ValidVersion(v) ==
    /\ \A k \in 1..8 : Nibbles(v)[k] <= 9
    /\ ~NibblesLess(Nibbles(v), << 1, 2, 0, 1, 0, 1, 0, 1 >>)
    /\ ~NibblesLess(<< 2, 9, 1, 2, 3, 2, 9, 9 >>, Nibbles(v))

InVersionRange(v) ==
    /\ ~NibblesLess(Nibbles(v), << 1, 2, 0, 1, 0, 1, 0, 1 >>)
    /\ ~NibblesLess(<< 2, 9, 1, 2, 3, 2, 9, 9 >>, Nibbles(v))

\* what fpga_get_version is to return for pointer ptr and version register v
VersionAnswer(ptr, v) ==
    IF ptr = "NULL" THEN U32Minus(1)
    ELSE IF ValidVersion(v) THEN v
    ELSE IF ~InVersionRange(v) THEN U32Minus(2)
    ELSE U32Minus(3)

\* C10: fpga_get_version returns a valid version register as it is and else
\* the sentinel -1 (unmapped), -2 (out of range) or -3 (hex letter); each
\* sentinel has bit 31 set and is no valid version; fpga_rb_init goes for the
\* reload exactly when the register it found is no valid version or a valid
\* one older than FPGA_VERSION_MIN.
C10_VersionValidation ==
    /\ call.op = "fpga_get_version" => call.ret = VersionAnswer(g_fpga_rb_reg_mem, call.arg)
    /\ \A k \in 1..3 : U32Bit31(U32Minus(k)) /\ ~ValidVersion(U32Minus(k))
    /\ \A k \in 1..3 : version_outdated(U32Minus(k))
    /\ (call.op = "fpga_rb_init" /\ call.arg[1]) =>
         /\ call.info.ver = VersionAnswer("MAPPED", call.info.reg)
         /\ call.info.fallback <=>
              \/ ~ValidVersion(call.info.reg)
              \/ NibblesLess(Nibbles(call.info.reg), Nibbles(FPGA_VERSION_MIN))

\* C10: fpga_rb_init went for the reload because a nibble of the version was a hex letter
C10_Witness ==
    /\ call.op = "fpga_rb_init"
    /\ call.info.fallback
    /\ call.info.ver = U32Minus(3)
    /\ ~ValidVersion(call.info.reg)
    /\ InVersionRange(call.info.reg)

Calibrated == call.op = "fpga_rb_calib" /\ call.arg[1] > 0 /\ ~segv

\* what the search ends at on a line whose magnitude is |offset - m|
SearchEnd(m) == IF (m + 32768) % 2 = 1 \/ m + 32768 = 0 THEN m ELSE m - 1

\* C6 as stated: on a line whose magnitude is |offset - m| the offset
\* rp_minimize_noise returns is m, for every m.
C6_SearchFindsMinimum ==
    Calibrated => \A line \in Channels : adc_ofs[line] = adc_dc[line]

\* C6, what the code does: on a line whose magnitude is |offset - m| the offset
\* rp_minimize_noise returns is m when m + 0x8000 is odd or zero and m - 1 when
\* m + 0x8000 is even and not zero (the two candidates of the round that is to
\* set the lowest one bit of m + 0x8000 lie at the same distance from m, and
\* the tie leaves the bit clear).
C6_SearchFindsMinimumOrBelow ==
    Calibrated => \A line \in Channels : adc_ofs[line] = SearchEnd(adc_dc[line])

\* C6: a calibration has ended with one line exact and one line one below
C6_Witness ==
    /\ Calibrated
    /\ \E line \in Channels : adc_ofs[line] = adc_dc[line] - 1
    /\ \E line \in Channels : adc_ofs[line] = adc_dc[line] /\ adc_dc[line] + 32768 > 0

\* C7: rp_minimize_noise runs its rounds for i = 15, 14, ..., 0 and is done
\* after exactly 16 of them and 32 calls of test_rx_measurement; round i > 0
\* measures min | (1 << (i - 1)) and min | (3 << (i - 1)) and sets bit i iff
\* the higher one measured strictly less, round 0 measures min and min | 1 and
\* sets bit 0 on the same condition; the bits above i stay as they were.
C7_SixteenRounds ==
    /\ cal.rounds <= 16
    /\ cal.n = 2 * cal.rounds
    /\ cal.pc = "round" => cal.i = 15 - cal.rounds /\ cal.i >= 0
    /\ cal.pc = "done" => cal.rounds = 16 /\ cal.n = 32 /\ cal.ret = cal.min_ofs_value - 32768
    /\ cal.rounds >= 1 =>
         LET j == 16 - cal.rounds
             step == IF j > 0 THEN Pow2(j - 1) ELSE 0
             bit == IF cal.test_sig_hi < cal.test_sig_lo THEN Pow2(j) ELSE 0
         IN  /\ cal.before % Pow2(j + 1) = 0
             /\ cal.test_ofs_lo = cal.before + step
             /\ cal.test_ofs_hi = (IF j > 0 THEN cal.before + 3 * step ELSE cal.before + 1)
             /\ cal.min_ofs_value = cal.before + bit
             /\ cal.min_ofs_value \div Pow2(j + 1) = cal.before \div Pow2(j + 1)

\* C7: the search is done, with bit 15 set in the first round and bit 0 left
\* clear on a tie in the last
C7_Witness ==
    /\ cal.pc = "done"
    /\ cal.rounds = 16
    /\ cal.min_ofs_value >= 32768
    /\ cal.test_sig_hi = cal.test_sig_lo
    /\ cal.min_ofs_value % 2 = 0

\* C11: a call of fpga_rb_init makes at most two calls of fpga_mmap_area and
\* runs the copy and reload of the bitstream at most once, the second mapping
\* and the reload only after a version check that failed, and is over after at
\* most six statements; a failed mapping ends it with -1, nothing mapped and
\* fpga_rb_enable(1) not called; when it returns 0 the window is mapped, the
\* sixteen oscillator registers are 0, ctrl is 1, src_con_pnt 0x301C0000,
\* tx_muxin_gain 0x7FFF, tx_amp_rf_gain 0xC80 and tx_amp_rf_ofs 0.
C11_InitWithoutRetry ==
    call.op = "fpga_rb_init" =>
        LET n == call.info
        IN  /\ n.maps <= 2 /\ n.reloads <= 1 /\ n.steps <= 6
            /\ n.maps = 2 => n.reloads = 1
            /\ n.reloads = 1 =>
                 /\ n.checked
                 /\ \/ ~ValidVersion(n.reg)
                    \/ NibblesLess(Nibbles(n.reg), Nibbles(FPGA_VERSION_MIN))
            /\ (n.pc = "done") <=> (call.ret # 1)
            /\ call.ret \in { 1, 0, -1 }
            /\ call.ret = -1 =>
                 /\ g_fpga_rb_reg_mem = "NULL"
                 /\ ~n.enabled
                 /\ regs["ctrl"] = 0
                 /\ n.steps = (IF n.maps = 1 THEN 2 ELSE 5)
            /\ call.ret = 0 =>
                 /\ g_fpga_rb_reg_mem = "MAPPED"
                 /\ n.enabled
                 /\ \A r \in OscRegs : regs[r] = 0
                 /\ regs["ctrl"] = 1
                 /\ regs["src_con_pnt"] = 807141376
                 /\ regs["tx_muxin_gain"] = 32767
                 /\ regs["tx_amp_rf_gain"] = 3200
                 /\ regs["tx_amp_rf_ofs"] = 0

\* C11: a call has returned 0 after the reload and the second mapping, on a
\* module that an earlier call had left mapped
C11_Witness ==
    /\ call.op = "fpga_rb_init"
    /\ call.ret = 0
    /\ call.info.maps = 2
    /\ call.info.reloads = 1
    /\ "rx_muxin_src" \in call.wr


\* C12: fpga_rb_get_ctrl undoes fpga_rb_set_ctrl: with the radio running, a modulation
\* source selected and the scanner at rest (increment 50), the carrier frequencies read
\* back with the same modulation types are the ones that were set, for every TX and
\* every RX modulation type
C12_ReadBackIsInverse ==
    ( /\ call.op = "fpga_rb_get_ctrl"
      /\ call.arg.rb_run # 0
      /\ call.arg.tx_modsrc # RB_MODSRC_NONE
      /\ call.arg.qrg_inc = 50 )
    => /\ call.info.tx_car_osc_qrg = call.arg.tx_car_osc_qrg
       /\ call.info.rx_car_osc_qrg = call.arg.rx_car_osc_qrg

\* C12, the part of the read-back that holds: every RX modulation type, and every TX
\* modulation type that writes the carrier register
C12_ReadBackExceptFm ==
    ( /\ call.op = "fpga_rb_get_ctrl"
      /\ call.arg.rb_run # 0
      /\ call.arg.tx_modsrc # RB_MODSRC_NONE
      /\ call.arg.qrg_inc = 50 )
    => /\ call.info.rx_car_osc_qrg = call.arg.rx_car_osc_qrg
       /\ call.arg.tx_modtyp # RB_TX_MODTYP_FM
            => call.info.tx_car_osc_qrg = call.arg.tx_car_osc_qrg

\* C12: a frequency set under FM is read back as the one an earlier call left
C12_Witness ==
    /\ call.op = "fpga_rb_get_ctrl"
    /\ call.arg.tx_modtyp = RB_TX_MODTYP_FM
    /\ call.arg.tx_car_osc_qrg = 1000
    /\ call.info.tx_car_osc_qrg = MaxQrg
    /\ call.info.rx_car_osc_qrg = call.arg.rx_car_osc_qrg


\* C13: the first LED is read-only: no hk_SetLedBits or hk_UnsetLedBits call changes
\* bit 0 of led_control, and a request whose bits include 0x1 returns RP_EMRO and
\* leaves led_control as it was
C13_FirstLedReadOnly ==
    (call.op \in {"hk_SetLedBits", "hk_UnsetLedBits"} /\ ~segv)
    => /\ hk.mem["led_control"] % 2 = call.info.before % 2
       /\ call.arg % 2 = 1
            => (call.ret = RP_EMRO /\ hk.mem["led_control"] = call.info.before)

\* C13, what the code does: only the request 0x1 itself is refused by hk_SetLedBits
C13_OnlyBitOneAloneRefused ==
    (call.op = "hk_SetLedBits" /\ ~segv)
    => /\ call.ret = RP_EMRO <=> call.arg = 1
       /\ call.ret = RP_EMRO => hk.mem["led_control"] = call.info.before

\* C13: hk_SetLedBits(3) switched the first LED on and reported success
C13_Witness ==
    /\ call.op = "hk_SetLedBits"
    /\ call.arg = 3
    /\ call.ret = RP_OK
    /\ call.info.before = 0
    /\ hk.mem["led_control"] = 3

\* C14: each of the thirteen registers of housekeeping_control_t lies inside the
\* window of HOUSEKEEPING_BASE_SIZE bytes, and no hk_* operation accesses a word
\* that ends beyond the size mapped by hk_Init
C14_RegistersInsideWindow ==
    /\ hk.ptr = "MAPPED" => \A f \in HkRegs : hk_offset(f) + 4 <= hk.size
    /\ (call.op \notin {"none", "hk_Init", "hk_Release"} /\ ~segv /\ call.info.offset >= 0)
         => call.info.offset + 4 <= call.info.size

\* C14, what the code does: the twelve registers before led_control are inside
C14_AllButLedInsideWindow ==
    /\ hk.ptr = "MAPPED" => \A f \in HkRegs \ {"led_control"} : hk_offset(f) + 4 <= hk.size
    /\ (call.op \notin {"none", "hk_Init", "hk_Release", "hk_SetLedBits", "hk_UnsetLedBits",
                        "hk_AreLedBitsSet"} /\ ~segv)
         => call.info.offset + 4 <= call.info.size

\* C14: led_control was written at the byte offset that equals the mapped size
C14_Witness ==
    /\ call.op = "hk_UnsetLedBits"
    /\ hk.ptr = "MAPPED"
    /\ "led_control" \in call.wr
    /\ call.info.offset = hk.size


\* C15: the calibration is deterministic: a run of rp_minimize_noise that observes the
\* same magnitude for every (offset, gain reduction) pair as the run before it returns
\* the same offset and writes the same sequence of values to rx_muxin_ofs and
\* rx_muxin_gain, whatever line it measures and whatever the run before left behind
C15_CalibrationDeterministic ==
    (cal.pc = "done" /\ cal.last.done /\ adc_dc[cal.last.line] = adc_dc[cal.line])
    => /\ cal.ret = cal.last.ret
       /\ cal.trace = cal.last.trace
       /\ Len(cal.trace) = 64

\* C15: a second run on another line with the same hardware offset, started from the
\* registers and the stored offset the first run left, found the same positive offset
C15_Witness ==
    /\ cal.pc = "done"
    /\ cal.last.done
    /\ cal.last.line # cal.line
    /\ adc_dc[cal.last.line] = adc_dc[cal.line]
    /\ adc_ofs[cal.last.line] = cal.last.ret
    /\ cal.ret = cal.last.ret
    /\ adc_dc[cal.line] = 1000
    /\ cal.ret > 0


\* bit 0x80 of fpga_update
Marked(e) == BitAnd(e.fpga_update, 128) # 0

\* the local variable an entry name stands for
LocalOf(name) ==
    IF name = "rb_run" THEN "rb_run"
    ELSE IF name \in DOMAIN ParamLocal THEN ParamLocal[name]
    ELSE "none"

\* the value the marked entries of the list give the local x: that of the last of them,
\* or the base value when there is none
Overriding(list, x, base) ==
    LET marked == { i \in 1..Len(list) : Marked(list[i]) /\ LocalOf(list[i].name) = x }
    IN  IF marked = {} THEN base
        ELSE list[CHOOSE i \in marked : \A j \in marked : j <= i].value

UpdateDone == call.op = "fpga_rb_update_all_params" /\ call.ret = 0

\* C16: in fpga_rb_update_all_params an entry overrides the base value of its parameter
\* iff bit 0x80 of its fpga_update is set; when the call returns 0 no entry of the list
\* has bit 0x80 set and the other bits of fpga_update are as before; a call repeated
\* on the list that was left applies the base values only and changes no entry
C16_OnlyMarkedApplied ==
    UpdateDone =>
        LET before == call.arg.list
            base == call.arg.pb
        IN  /\ Len(pn) = Len(before)
            /\ \A i \in 1..Len(pn) :
                  /\ ~Marked(pn[i])
                  /\ pn[i].fpga_update = BitClear(before[i].fpga_update, 128)
                  /\ pn[i].name = before[i].name
            /\ \A x \in DOMAIN base \ {"rb_calib"} :
                  call.info.loc[x] = Overriding(before, x, base[x])
            /\ (\A i \in 1..Len(before) : ~Marked(before[i]))
                  => /\ pn = before
                     /\ call.info.loc = [base EXCEPT !.rb_calib = 0]

\* C16: a call on a list the call before left: the entry rb_run = 1 is no longer
\* marked and the stopped base set decides
C16_Witness ==
    /\ UpdateDone
    /\ Len(pn) = 3
    /\ pn[1] = Param("rb_run", 1, 1)
    /\ pn = call.arg.list
    /\ call.arg.pb.rb_run = 0
    /\ call.info.loc.rb_run = 0
    /\ call.info.loc.tx_car_osc_qrg = call.arg.pb.tx_car_osc_qrg

\* the marked rb_calib entries of a list, and the k-th of them
CalibEntries(list) == { i \in 1..Len(list) : Marked(list[i]) /\ list[i].name = "rb_calib" }

\* the run state known at entry idx of the list
RunStateAt(list, idx, base) == Overriding(SubSeq(list, 1, idx - 1), "rb_run", base)

\* what holds of the rb_calib entries whatever decides about the measurement:
\* one call of fpga_rb_calib per marked entry, in the order of the list, the value
\* of the entry 0.0 afterwards, fpga_rb_enable with the run state known there, and
\* the base value without effect
CalibOncePerEntry ==
    LET before == call.arg.list
        notes == call.info.calibs
    IN  /\ Len(notes) = Cardinality(CalibEntries(before))
        /\ \A k \in 1..Len(notes) :
              /\ notes[k].idx \in CalibEntries(before)
              /\ k > 1 => notes[k - 1].idx < notes[k].idx
              /\ pn[notes[k].idx].value = 0 /\ pn[notes[k].idx].frac = 0
              /\ notes[k].enabled = RunStateAt(before, notes[k].idx, call.arg.pb.rb_run)
        /\ CalibEntries(before) = {} => (notes = << >> /\ call.info.loc.rb_calib = 0)

\* C20: a marked rb_calib entry is single-shot: the ADC-offset measurement runs iff the
\* value of the entry is > 0, once per marked entry, the value is 0.0 afterwards and
\* fpga_rb_enable follows with the run state known at that point of the list; the base
\* value of rb_calib is never used and a call without a marked rb_calib never measures
C20_CalibSingleShot ==
    UpdateDone =>
        /\ CalibOncePerEntry
        /\ \A k \in 1..Len(call.info.calibs) :
              LET e == call.arg.list[call.info.calibs[k].idx]
              IN  call.info.calibs[k].measured <=> (e.value > 0 \/ (e.value = 0 /\ e.frac > 0))

\* C20 with the conversion the code makes: the measurement runs iff the value of the
\* entry converted to int is > 0, that is iff the value is 1.0 or more
C20_CalibSingleShotOfIntValue ==
    UpdateDone =>
        /\ CalibOncePerEntry
        /\ \A k \in 1..Len(call.info.calibs) :
              LET e == call.arg.list[call.info.calibs[k].idx]
              IN  call.info.calibs[k].measured <=> e.value >= 1

\* C20: of three marked rb_calib entries the one with a value above 0 was measured,
\* every value is 0.0 now and the unmarked entry kept its value
C20_Witness ==
    /\ UpdateDone
    /\ Len(call.info.calibs) = 3
    /\ call.info.calibs[3].measured
    /\ ~call.info.calibs[1].measured
    /\ ~call.info.calibs[2].measured
    /\ pn[1].value = 1
    /\ pn[4].value = 0
    /\ adc_ofs # [ch \in Channels |-> 0]


\* the Weaver shift fpga_rb_set_ctrl adds to a carrier frequency
TxShift(tx_modtyp) ==
    CASE tx_modtyp = RB_TX_MODTYP_USB -> ssb_weaver_osc_qrg
      [] tx_modtyp = RB_TX_MODTYP_LSB -> -ssb_weaver_osc_qrg
      [] OTHER -> 0

RxShift(rx_modtyp) ==
    CASE rx_modtyp \in {RB_RX_MODTYP_USB, RB_RX_MODTYP_AMSYNC_USB} -> ssb_weaver_osc_qrg
      [] rx_modtyp \in {RB_RX_MODTYP_LSB, RB_RX_MODTYP_AMSYNC_LSB} -> -ssb_weaver_osc_qrg
      [] OTHER -> 0

\* the scanner of the oscillator stands still; the carrier registers hold the encoding of f
ScannerStopped(osc) == regs[osc \o "_inc_scnr_hi"] = 0 /\ regs[osc \o "_inc_scnr_lo"] = 0

CarrierHolds(osc, f) ==
    /\ regs[osc \o "_inc_hi"] = bf_hi(qrg_bitfield(f))
    /\ regs[osc \o "_inc_lo"] = bf_lo(qrg_bitfield(f))

SetCtrlRunning ==
    /\ call.op = "fpga_rb_set_ctrl"
    /\ ~segv
    /\ call.arg.rb_run # 0
    /\ call.arg.tx_modsrc # RB_MODSRC_NONE

\* C17: after fpga_rb_set_ctrl with the radio running, a modulation source selected and
\* a TX modulation other than FM, whenever the TX scanner is stopped the TX carrier
\* increment holds the encoding of the requested tx_car_osc_qrg (with the Weaver shift
\* for USB and LSB), and likewise for RX, for every qrg_inc and every tx_qrg_sel, rx_qrg_sel
C17_StoppedScannerMeansRequestedCarrier ==
    SetCtrlRunning =>
        /\ (call.arg.tx_modtyp # RB_TX_MODTYP_FM /\ ScannerStopped("tx_car_osc"))
              => CarrierHolds("tx_car_osc", call.arg.tx_car_osc_qrg + TxShift(call.arg.tx_modtyp))
        /\ ScannerStopped("rx_car_osc")
              => CarrierHolds("rx_car_osc", call.arg.rx_car_osc_qrg + RxShift(call.arg.rx_modtyp))

\* C17, what the code does: the carrier is written when the increment is 50
C17_CentredSliderMeansRequestedCarrier ==
    SetCtrlRunning =>
        /\ (call.arg.tx_modtyp # RB_TX_MODTYP_FM /\ (call.arg.tx_qrg_sel = 0 \/ call.arg.qrg_inc = 50))
              => /\ ScannerStopped("tx_car_osc")
                 /\ CarrierHolds("tx_car_osc", call.arg.tx_car_osc_qrg + TxShift(call.arg.tx_modtyp))
        /\ (call.arg.rx_qrg_sel = 0 \/ call.arg.qrg_inc = 50)
              => /\ ScannerStopped("rx_car_osc")
                 /\ CarrierHolds("rx_car_osc", call.arg.rx_car_osc_qrg + RxShift(call.arg.rx_modtyp))

\* C17: the slider at 46 acts on the TX carrier: the scanner stands still and the
\* carrier registers hold what the first call after fpga_rb_init found there
C17_Witness ==
    /\ SetCtrlRunning
    /\ ncalls = 1
    /\ call.arg.tx_qrg_sel = 1
    /\ call.arg.qrg_inc = 46
    /\ ScannerStopped("tx_car_osc")
    /\ CarrierHolds("tx_car_osc", 0)

(***************************************************************************)
(* The modulation switches of fpga_rb_set_ctrl among the other calls       *)
(***************************************************************************)
\* a tx_modtyp and an rx_modtyp none of the case labels names
TX_MODTYP_CW == 1
RX_MODTYP_OFF == 0

\* TX and RX modulation types requested together, the unnamed ones among them
ModePairs ==
    { <<RB_TX_MODTYP_USB, RB_RX_MODTYP_USB>>, <<RB_TX_MODTYP_LSB, RB_RX_MODTYP_AMSYNC_USB>>,
      <<RB_TX_MODTYP_AM, RX_MODTYP_OFF>>, <<RB_TX_MODTYP_FM, RB_RX_MODTYP_FM>>,
      <<RB_TX_MODTYP_PM, RB_RX_MODTYP_AMENV + 16>>, <<TX_MODTYP_CW, RB_RX_MODTYP_PM>>,
      <<RB_TX_MODTYP_FM, RB_RX_MODTYP_LSB>>, <<TX_MODTYP_CW, RB_RX_MODTYP_AMSYNC_LSB>> }

ModeArgs ==
    { [ArgBase EXCEPT !.tx_modtyp = p[1], !.rx_modtyp = p[2], !.tx_modsrc = src] :
        p \in ModePairs, src \in {RB_MODSRC_RF_IN1, RB_MODSRC_NONE} }
    \cup { [ArgBase EXCEPT !.rb_run = 0, !.tx_modtyp = RB_TX_MODTYP_FM] }

fpga_rb_set_ctrl_modes == set_ctrl_with(ModeArgs)

NextModes ==
    \/ fpga_rb_init
    \/ fpga_rb_enable
    \/ fpga_rb_reset
    \/ fpga_rb_calib
    \/ fpga_rb_set_ctrl_modes

SpecModes == InitReadBack /\ [][NextModes]_vars

\* the streaming bits of ctrl: FM increment 0x20, PM offset 0x40, RX AFC increment 0x00200000
CtrlBit(v, bit) == BitAnd(v, bit) = bit

RxIncrementStreamed(typ) ==
    (typ % 16) \in { RB_RX_MODTYP_AMSYNC_USB, RB_RX_MODTYP_AMSYNC_LSB, RB_RX_MODTYP_FM,
                     RB_RX_MODTYP_PM, RB_RX_MODTYP_AMENV }

StreamingMatches(a, ctrl) ==
    /\ CtrlBit(ctrl, 32) <=> (a.tx_modtyp = RB_TX_MODTYP_FM)
    /\ CtrlBit(ctrl, 64) <=> (a.tx_modtyp = RB_TX_MODTYP_PM)
    /\ CtrlBit(ctrl, 2097152) <=> RxIncrementStreamed(a.rx_modtyp)

\* C18: after every fpga_rb_set_ctrl with rb_run # 0 and a tx_modsrc other than NONE
\* the streaming bits of ctrl match the modulation requested, whatever the call before
\* selected: 0x20 iff tx_modtyp is FM, 0x40 iff tx_modtyp is PM, 0x00200000 iff the
\* RX modulation is AM-sync, FM, PM or AM-envelope.
C18_StreamingBitsMatchModulation ==
    SetCtrlRunning => StreamingMatches(call.arg, regs["ctrl"])

\* what the code keeps: the match holds whenever both types are among the case labels
C18_StreamingBitsMatchNamedModulation ==
    (/\ SetCtrlRunning
     /\ call.arg.tx_modtyp \in TxModtyps
     /\ (call.arg.rx_modtyp % 16) \in RxModtyps)
        => StreamingMatches(call.arg, regs["ctrl"])

\* a call for CW has returned with the FM streaming bit of the call before still set
C18_Witness ==
    /\ SetCtrlRunning
    /\ call.arg.tx_modtyp = TX_MODTYP_CW
    /\ CtrlBit(regs["ctrl"], 32)

\* C19: in every state reachable by fpga_rb_init, fpga_rb_enable, fpga_rb_reset,
\* fpga_rb_calib and fpga_rb_set_ctrl, the values ctrl holds between two register
\* writes of one call included, ctrl never has the FM streaming bit 0x20 and the PM
\* streaming bit 0x40 set at the same time.
C19_NeverFmAndPmStreaming ==
    \A v \in call.ctl \cup {regs["ctrl"]} : ~(CtrlBit(v, 32) /\ CtrlBit(v, 64))

\* a call switched from PM to FM: between its writes ctrl still held the PM bit of the
\* call before, then neither bit, and it holds the FM bit now
C19_Witness ==
    /\ SetCtrlRunning
    /\ call.arg.tx_modtyp = RB_TX_MODTYP_FM
    /\ CtrlBit(regs["ctrl"], 32)
    /\ \E v \in call.ctl : CtrlBit(v, 64)
    /\ \E v \in call.ctl : ~CtrlBit(v, 32) /\ ~CtrlBit(v, 64)

(***************************************************************************)
(* fpga_rb_update_all_params with the radio stopped                        *)
(***************************************************************************)
\* lists without a marked rb_run or rb_calib (the first two, with other entries marked
\* and with rb_run and rb_calib unmarked), a list that starts the radio, lists with
\* rb_run or rb_calib marked and the radio stopped
StoppedLists ==
    { << Param("tx_car_osc_qrg_f", MaxQrg, 128), Param("rb_run", 1, 1), Param("foo", 1, 130),
         Param("rb_calib", 1, 0) >>,
      << Param("qrg_inc_s", 60, 129), Param("tx_modsrc_s", RB_MODSRC_RF_IN1, 128) >>,
      << Param("rb_run", 1, 128), Param("rx_car_osc_qrg_f", 0, 128) >>,
      << Param("rb_run", 0, 128) >>,
      << Param("rb_calib", 0, 128), Param("tx_muxin_gain_s", 10, 128) >> }

StoppedArgs(list) ==
    { [pb_null |-> FALSE, p_pn_null |-> FALSE, pn_null |-> FALSE, pb |-> b, list |-> l, status |-> st] :
        b \in PbSamples, l \in StoppedLists \cup {list, Remarked(list)}, st \in StatusReads }
    \cup { [pb_null |-> x[1], p_pn_null |-> FALSE, pn_null |-> x[2], pb |-> PbStopped,
            list |-> << Param("qrg_inc_s", 60, 129) >>, status |-> 256] :
             x \in { <<TRUE, FALSE>>, <<FALSE, TRUE>> } }

fpga_rb_update_all_params_stopped == update_all_params_with(StoppedArgs(pn))

NextStopped ==
    \/ fpga_rb_update_all_params_stopped
    \/ fpga_rb_exit
    \/ fpga_rb_init

SpecStopped == InitReadBack /\ [][NextStopped]_vars

\* the call can run (registers mapped, pb, p_pn and *p_pn given), the rb_run in effect
\* is 0 and no entry named rb_run or rb_calib is marked
StoppedUpdate(arg, ptr) ==
    /\ ptr = "MAPPED"
    /\ ~arg.pb_null /\ ~arg.p_pn_null /\ ~arg.pn_null
    /\ Overriding(arg.list, "rb_run", arg.pb.rb_run) = 0
    /\ \A i \in 1..Len(arg.list) :
          Marked(arg.list[i]) => arg.list[i].name \notin {"rb_run", "rb_calib"}

\* the list with bit 0x80 of every fpga_update cleared
Unmarked(list) == [k \in 1..Len(list) |-> [list[k] EXCEPT !.fpga_update = BitClear(@, 128)]]

\* C21: when the rb_run in effect (the base value, overridden by a marked rb_run entry)
\* is 0 and neither rb_run nor rb_calib is marked, fpga_rb_update_all_params returns 0
\* without calling fpga_rb_set_ctrl and without writing an FPGA register or the cache
\* of old values, and it clears the update markers of the other marked entries.
C21_StoppedUpdateWritesNothing ==
    [][ (/\ call'.op = "fpga_rb_update_all_params"
         /\ ncalls' = ncalls + 1
         /\ StoppedUpdate(call'.arg, g_fpga_rb_reg_mem))
            => /\ call'.ret = 0
               /\ call'.wr = {} /\ call'.ctl = {}
               /\ regs' = regs
               /\ olds' = olds
               /\ adc_ofs' = adc_ofs
               /\ pn' = Unmarked(call'.arg.list) ]_vars

\* such a call has returned after a call that had the radio running: the registers and
\* the old values hold what that call wrote, and entries of the list were marked
C21_Witness ==
    /\ call.op = "fpga_rb_update_all_params"
    /\ StoppedUpdate(call.arg, g_fpga_rb_reg_mem)
    /\ call.ret = 0
    /\ \E i \in 1..Len(call.arg.list) : Marked(call.arg.list[i])
    /\ pn = Unmarked(call.arg.list)
    /\ olds # OldsInit
    /\ regs # MappedRegs

(***************************************************************************)
(* fpga_rb_set_ctrl stopping a running radio                               *)
(***************************************************************************)
StopModtyps ==
    { <<RB_TX_MODTYP_USB, RB_RX_MODTYP_AMSYNC_USB>>, <<RB_TX_MODTYP_FM, RB_RX_MODTYP_FM>>,
      <<RB_TX_MODTYP_PM, RB_RX_MODTYP_LSB>> }

\* every running set also as a stopped one: the other arguments of a call with
\* rb_run = 0 are as varied as those of a call with the radio running
StopArgs ==
    { [ArgBase EXCEPT !.rb_run = run, !.tx_modtyp = p[1], !.rx_modtyp = p[2],
                      !.tx_modsrc = RB_MODSRC_RF_IN1,
                      !.tx_car_osc_qrg = f, !.rx_car_osc_qrg = -f, !.qrg_inc = i,
                      !.tx_qrg_sel = 1, !.rx_qrg_sel = 1] :
        run \in {0, 1}, p \in StopModtyps, f \in {1000, MaxQrg}, i \in {50, 100} }

fpga_rb_set_ctrl_stopping == set_ctrl_with(StopArgs)

NextStop == fpga_rb_set_ctrl_stopping

SpecStop == InitReadBack /\ [][NextStop]_vars

\* the register pairs of the two carrier oscillator increments
CarrierIncRegs == { "tx_car_osc_inc_lo", "tx_car_osc_inc_hi", "rx_car_osc_inc_lo", "rx_car_osc_inc_hi" }

\* the registers the branch writes 0 to: the inputs, the RF gain, the scanner increments,
\* the increments of the modulation oscillators and of the AFC weaver
StoppedRegs ==
    { "tx_muxin_src", "rx_muxin_src", "tx_amp_rf_gain",
      "tx_car_osc_inc_scnr_lo", "tx_car_osc_inc_scnr_hi",
      "rx_car_osc_inc_scnr_lo", "rx_car_osc_inc_scnr_hi",
      "tx_mod_osc_inc_lo", "tx_mod_osc_inc_hi", "rx_mod_osc_inc_lo", "rx_mod_osc_inc_hi",
      "rx_car_calc_weaver_inc_lo", "rx_car_calc_weaver_inc_hi" }

\* C22: fpga_rb_set_ctrl with rb_run = 0 turns off all streaming, reset and resync bits
\* (ctrl & 0x10767076 = 0 afterwards), writes 0 to tx_muxin_src, rx_muxin_src,
\* tx_amp_rf_gain, both scanner increments, both modulation oscillator increments and
\* the AFC weaver increment, and leaves the TX and RX carrier oscillator increment
\* registers as they were.
C22_StopKeepsCarriers ==
    [][ (/\ call'.op = "fpga_rb_set_ctrl"
         /\ ncalls' = ncalls + 1
         /\ ~segv'
         /\ call'.arg.rb_run = 0)
            => /\ BitAnd(regs'["ctrl"], 276197494) = 0
               /\ \A r \in StoppedRegs : regs'[r] = 0 /\ r \in call'.wr
               /\ \A r \in CarrierIncRegs : regs'[r] = regs[r] /\ r \notin call'.wr ]_vars

\* the radio was stopped after a call that had set both carriers: the carrier
\* increments are not 0, the stop call did not write them and the rest is off
C22_Witness ==
    /\ call.op = "fpga_rb_set_ctrl"
    /\ ~segv
    /\ call.arg.rb_run = 0
    /\ BitAnd(regs["ctrl"], 276197494) = 0
    /\ regs["tx_car_osc_inc_lo"] # 0
    /\ regs["rx_car_osc_inc_lo"] # 0
    /\ CarrierIncRegs \cap call.wr = {}
    /\ StoppedRegs \subseteq call.wr

(***************************************************************************)
(* The enable bit and the ADC automatic-offset bit of ctrl                 *)
(***************************************************************************)
\* the argument sets of the lifecycle and of the modulation switches together:
\* ADC and other sources, every modulation type, the radio running and stopped
AnyArgs == CtrlArgs \cup { a \in ModeArgs : a.tx_modsrc # RB_MODSRC_NONE }

fpga_rb_set_ctrl_any == set_ctrl_with(AnyArgs)

NextCtrlBits ==
    \/ fpga_rb_init
    \/ fpga_rb_exit
    \/ fpga_rb_enable
    \/ fpga_rb_reset
    \/ fpga_rb_calib
    \/ fpga_rb_set_ctrl_any

SpecCtrlBits == InitReadBack /\ [][NextCtrlBits]_vars

\* the functions that write ctrl as a whole: fpga_rb_enable, fpga_rb_reset and the
\* measurement routines of fpga_rb_calib; fpga_rb_init and fpga_rb_exit call fpga_rb_enable
WholeCtrlWriters ==
    { "fpga_rb_enable", "fpga_rb_reset", "fpga_rb_calib", "fpga_rb_init", "fpga_rb_exit" }

\* C23: no call of fpga_rb_set_ctrl, whatever its arguments, changes bit 0 of ctrl
\* (sub-module enable) or clears the ADC automatic-offset bit 0x01000000, neither at its
\* end nor between two of its writes; bit 0 changes and the ADC bit is cleared only in
\* fpga_rb_enable, fpga_rb_reset and the calibration measurement routines.
C23_SetCtrlKeepsEnableAndAdcBits ==
    [][ /\ (/\ call'.op = "fpga_rb_set_ctrl"
            /\ ncalls' = ncalls + 1
            /\ ~segv')
               => /\ \A v \in call'.ctl \cup {regs'["ctrl"]} :
                        /\ CtrlBit(v, 1) <=> CtrlBit(regs["ctrl"], 1)
                        /\ CtrlBit(regs["ctrl"], adc_auto_ofs) => CtrlBit(v, adc_auto_ofs)
                  /\ (\E v \in call'.ctl : CtrlBit(v, adc_auto_ofs))
                        => CtrlBit(regs'["ctrl"], adc_auto_ofs)
        /\ (\/ CtrlBit(regs'["ctrl"], 1) # CtrlBit(regs["ctrl"], 1)
            \/ CtrlBit(regs["ctrl"], adc_auto_ofs) /\ ~CtrlBit(regs'["ctrl"], adc_auto_ofs))
               => call'.op \in WholeCtrlWriters ]_vars

\* a call stopped the radio and wrote ctrl: the enable bit and the ADC bit that a call
\* with the radio running had set are still there
C23_Witness ==
    /\ call.op = "fpga_rb_set_ctrl"
    /\ ~segv
    /\ call.arg.rb_run = 0
    /\ call.ctl # {}
    /\ CtrlBit(regs["ctrl"], 1)
    /\ CtrlBit(regs["ctrl"], adc_auto_ofs)

(***************************************************************************)
(* The sweep increment of the carrier scanners on its own                  *)
(***************************************************************************)
\* every position of the frequency slider
ScnrInputs == 0 .. 100

fpga_rb_set_tx_car_osc_qrg_inc ==
    Waiting /\ Applied("fpga_rb_set_tx_car_osc_qrg_inc", set_tx_car_osc_qrg_inc(Mach(regs), call.arg))

fpga_rb_set_rx_car_osc_qrg_inc ==
    Waiting /\ Applied("fpga_rb_set_rx_car_osc_qrg_inc", set_rx_car_osc_qrg_inc(Mach(regs), call.arg))

\* the getter called after the setter of its oscillator; arg stays the slider position
scnr_read(setter, getter, osc) ==
    /\ call.op = setter
    /\ call' = Call(getter, call.arg, get_car_osc_qrg_inc(regs, osc), {}, 0)
    /\ prev6' = << >>
    /\ ncalls' = ncalls + 1
    /\ UNCHANGED hk
    /\ UNCHANGED << g_fpga_rb_reg_mem, regs, version, olds, adc_ofs, adc_dc, pn, cal, segv >>

fpga_rb_get_tx_car_osc_qrg_inc ==
    Ready /\ scnr_read("fpga_rb_set_tx_car_osc_qrg_inc", "fpga_rb_get_tx_car_osc_qrg_inc", "tx_car_osc")

fpga_rb_get_rx_car_osc_qrg_inc ==
    Ready /\ scnr_read("fpga_rb_set_rx_car_osc_qrg_inc", "fpga_rb_get_rx_car_osc_qrg_inc", "rx_car_osc")

InitScnr == Mapped(ScnrInputs)

NextScnr ==
    \/ fpga_rb_set_tx_car_osc_qrg_inc
    \/ fpga_rb_set_rx_car_osc_qrg_inc
    \/ fpga_rb_get_tx_car_osc_qrg_inc
    \/ fpga_rb_get_rx_car_osc_qrg_inc

SpecScnr == InitScnr /\ [][NextScnr]_vars

\* the oscillator a call of one of the four functions is about, "none" otherwise
ScnrOsc ==
    CASE call.op \in {"fpga_rb_set_tx_car_osc_qrg_inc", "fpga_rb_get_tx_car_osc_qrg_inc"} -> "tx_car_osc"
      [] call.op \in {"fpga_rb_set_rx_car_osc_qrg_inc", "fpga_rb_get_rx_car_osc_qrg_inc"} -> "rx_car_osc"
      [] OTHER -> "none"

\* ~w on a register word
WordComplement(w) == Pow2(OscWordBits) - 1 - w

\* what the scanner pair of osc holds, as a signed value
ScnrWritten(r, osc) == pair_value(r[osc \o "_inc_scnr_hi"], r[osc \o "_inc_scnr_lo"])

\* the registers the setter of osc leaves for the slider position qrg_inc
ScnrRegsFor(osc, qrg_inc) == set_car_osc_qrg_inc(Mach(MappedRegs), osc, qrg_inc).regs

\* C24: the carrier sweep increment for every integer qrg_inc in 0..100, TX and RX:
\* for 46..54 the scanner register pair is written 0; for qrg_inc >= 55 a strictly
\* positive value is written; for qrg_inc <= 45 the value written is the bitwise
\* complement of the value written for 100 - qrg_inc, hence negative; and
\* fpga_rb_get_*_car_osc_qrg_inc reads a negative rate exactly when the value written
\* is negative.
C24_ScannerIncrementSigns ==
    ScnrOsc # "none" =>
        LET osc == ScnrOsc
            lo == osc \o "_inc_scnr_lo"
            hi == osc \o "_inc_scnr_hi"
            i == call.arg
            mirror == ScnrRegsFor(osc, 100 - i)
        IN  /\ (46 <= i /\ i <= 54) => (regs[lo] = 0 /\ regs[hi] = 0)
            /\ i >= 55 => ScnrWritten(regs, osc) > 0
            /\ i <= 45 => /\ regs[lo] = WordComplement(mirror[lo])
                          /\ regs[hi] = WordComplement(mirror[hi])
                          /\ ScnrWritten(regs, osc) < 0
            /\ call.op \in {"fpga_rb_get_tx_car_osc_qrg_inc", "fpga_rb_get_rx_car_osc_qrg_inc"}
                  => (call.ret < 0 <=> ScnrWritten(regs, osc) < 0)

\* the slider just below the range that stops the scanner: the complement of the
\* slowest rate is in the TX pair and the getter has read a negative rate
C24_Witness ==
    /\ call.op = "fpga_rb_get_tx_car_osc_qrg_inc"
    /\ call.arg = 45
    /\ regs["tx_car_osc_inc_scnr_lo"] = WordComplement(ScnrTable[1])
    /\ regs["tx_car_osc_inc_scnr_hi"] = WordComplement(0)
    /\ call.ret < 0

\* the registers finish_rx_measurement leaves 0
FinishedRegs == { "rx_muxin_ofs", "rx_muxin_src", "rx_car_osc_inc_lo", "rx_car_osc_inc_hi", "pwr_ctrl", "ctrl" }

\* the registers fpga_rb_enable writes, whatever its argument
EnableRegs == { "ctrl", "src_con_pnt", "tx_muxin_gain", "tx_amp_rf_gain", "tx_amp_rf_ofs", "rx_muxin_src" }

\* C25: rp_measure_calib_params calibrates exactly the six inputs 0x20, 0x21, 0x18, 0x10,
\* 0x11, 0x19 in that order and stores each result with calib_set_ADC_offset under the
\* channel id prepare_rx_measurement selected for it; afterwards rx_muxin_ofs,
\* rx_muxin_src, the RX carrier increment, pwr_ctrl and ctrl are all 0; fpga_rb_calib
\* then ends with bit 0 of ctrl equal to (enabled # 0), and with calib <= 0 it performs
\* no measurement at all.
C25_CalibSixLinesInOrder ==
    [][ (/\ call'.op = "fpga_rb_calib"
         /\ ncalls' = ncalls + 1
         /\ g_fpga_rb_reg_mem = "MAPPED")
            => LET calib == call'.arg[1]
                   enabled == call'.arg[2]
                   log == call'.info.log
               IN  /\ CtrlBit(regs'["ctrl"], 1) <=> (enabled # 0)
                   /\ calib > 0 =>
                         /\ [k \in 1..Len(log) |-> log[k].selected] = << 32, 33, 24, 16, 17, 25 >>
                         /\ \A k \in 1..Len(log) :
                               /\ log[k].stored = log[k].selected
                               /\ adc_ofs'[log[k].stored] = log[k].value
                         /\ \A r \in FinishedRegs : call'.info.left[r] = 0
                         /\ FinishedRegs \subseteq call'.wr
                   /\ calib <= 0 =>
                         /\ log = << >>
                         /\ adc_ofs' = adc_ofs
                         /\ call'.wr \subseteq EnableRegs
                         /\ \A r \in MeasuredRegs : call'.info.left[r] = regs[r] ]_vars

\* a calibration has run on hardware with six different offsets: each line has its
\* own value in the record, ctrl was left 0 and fpga_rb_enable(1) came last
C25_Witness ==
    /\ call.op = "fpga_rb_calib"
    /\ call.arg = << 1, 1 >>
    /\ Len(call.info.log) = 6
    /\ call.info.log[3].selected = 24
    /\ \A j, k \in 1..6 : j # k => call.info.log[j].value # call.info.log[k].value
    /\ call.info.left["ctrl"] = 0
    /\ regs["ctrl"] = 1


====
